---- MODULE Spec2Model ----
(***************************************************************************)
(* Real-time chat rooms (nguyenhung204/streaming_bcn).                     *)
(*                                                                         *)
(* MessageBufferService  src/src/services/cookie-config.service.ts:117-324 *)
(* SessionManager        src/unnamed/part_002                              *)
(*                                                                         *)
(* Granularity.  Node runs one callback at a time.  A handler is split     *)
(* where it awaits real I/O (the batch insert of flushToDatabase): other   *)
(* events are dispatched while the insert is pending.  An await on a       *)
(* promise that is already settled (ErrorHandler.handle around a body      *)
(* without I/O, removeUserFromAllRooms inside addUserToRoom) resumes in    *)
(* the same microtask drain, before the event loop dispatches another      *)
(* socket event or timer, so such a body is one step.                      *)
(***************************************************************************)
EXTENDS Integers, Sequences, FiniteSets, TLC

\* ------------------------------------------------------------------ bounds
Rooms == {"r1", "r2"}
\* messages ever created (generateId is modelled by a counter)
MaxMsgs == 5
\* batch inserts that fail
MaxFails == 2
\* largest limit passed to getRecentMessages
MaxLimit == 3
Sockets == {"c1", "c2"}
\* sockets of the registry specification
AllSockets == {"c1", "c2", "c3"}
Users == {"u1", "u2"}
\* last value of the clock (Date.now(), in scaled units)
MaxTime == 2
\* checkRateLimit calls recorded per socket
MaxCalls == 5
\* largest roomMessageCounts value
MaxCount == 1
\* cookies in a Cookie header
MaxCookies == 2
\* handlers suspended at the same time
MaxPending == 2

\* ------------------------------------------------- program constants (scaled)
\* MAX_RECENT_MESSAGES = 100 in the source
MAX_RECENT_MESSAGES == 2
\* EMERGENCY_FLUSH_SIZE = 1000 in the source
EMERGENCY_FLUSH_SIZE == 2
\* MESSAGE_BUFFER_SIZE, default 100 in the source
BATCH_SIZE == 2
\* RATE_LIMIT_MAX_REQUESTS, default 30 in the source
rateLimitMaxRequests == 3
\* RATE_LIMIT_WINDOW_MS, default 60000 in the source
rateLimitWindowMs == 2
\* inactiveThreshold, 5 * 60 * 1000 in the source
inactiveThreshold == 1

VARIABLES
  recentMessages,   \* Map roomId -> PendingMessage[]     (MessageBufferService)
  pendingWrites,    \* PendingMessage[]
  inflight,         \* flushToDatabase calls awaiting insertMany
  stored,           \* chat_messages collection: documents per message
  nextId,           \* next value of generateId
  failures,         \* failed batch inserts so far
  added,            \* history: every message added, per room, in order
  dropped,          \* history: ids of the messages the overflow policy dropped
  clearedAt,        \* history: per room, the value of nextId at its last clear
  drain,            \* history: queue length at the last add/requeue, flushes since
  userSessions,     \* Map socketId -> UserSession              (SessionManager)
  userRooms,        \* Map userId -> roomId
  roomUsers,        \* Map roomId -> Set<userId>
  roomMessageCounts,\* Map roomId -> count
  typingUsers,      \* Map roomId -> Set<userId>
  rateLimitMap,     \* Map socketId -> timestamps of admitted requests
  now,              \* Date.now()
  rateCalls,        \* history: every checkRateLimit call per socket, with its outcome
  userModel,        \* users collection: studentId -> document          (mongoose)
  clients,          \* socket.io sockets: state, data.user, rooms        (ChatGateway)
  pending,          \* handlers suspended at an await on the database
  received,         \* history: events each socket has been sent
  deleted,          \* history: ids of the messages an admin has deleted
  liveRoomModel,    \* live rooms collection: roomId -> viewerCount       (mongoose)
  shutdown,         \* position of onApplicationShutdown
  lastOp            \* history: the operation just performed and what it returned

bufVars == <<recentMessages, pendingWrites, inflight, stored, nextId, failures,
             added, dropped, clearedAt, drain>>
regVars == <<userSessions, userRooms, roomUsers, roomMessageCounts, typingUsers,
             rateLimitMap, now, rateCalls>>
appVars == <<userModel, clients, pending, received, deleted, liveRoomModel,
            shutdown>>
vars == <<recentMessages, pendingWrites, inflight, stored, nextId, failures,
          added, dropped, clearedAt, drain, userSessions, userRooms, roomUsers,
          roomMessageCounts,
          typingUsers, rateLimitMap, now, rateCalls, userModel, clients, pending,
          received, deleted, liveRoomModel, shutdown, lastOp>>

\* ------------------------------------------------------------ JS array helpers
Min(a, b) == IF a < b THEN a ELSE b
Max(a, b) == IF a > b THEN a ELSE b

\* the elements Array.prototype.splice(0, n) removes
SpliceHead(s, n) == SubSeq(s, 1, Min(Max(n, 0), Len(s)))
\* what is left of the array after splice(0, n)
SpliceRest(s, n) == SubSeq(s, Min(Max(n, 0), Len(s)) + 1, Len(s))
\* Array.prototype.slice(start): a negative start counts from the end
Slice(s, start) ==
  LET from == IF start < 0 THEN Max(Len(s) + start, 0) ELSE Min(start, Len(s))
  IN  SubSeq(s, from + 1, Len(s))
\* Array.prototype.reverse
Reverse(s) == [i \in 1..Len(s) |-> s[Len(s) + 1 - i]]
\* the last n elements of s, oldest first
LastN(s, n) == SubSeq(s, Len(s) - n + 1, Len(s))

\* ------------------------------------------------------- MessageBufferService
\* this.recentMessages.get(roomId) || []
RoomMessages(roomId) ==
  IF roomId \in DOMAIN recentMessages THEN recentMessages[roomId] ELSE <<>>

\* roomMessages.splice(0, roomMessages.length - MAX_RECENT_MESSAGES) when too long
TrimRecent_KeepOldest(roomMessages) ==
  SubSeq(roomMessages, 1, Min(Len(roomMessages), MAX_RECENT_MESSAGES))
TrimRecent(roomMessages) ==
  IF Len(roomMessages) > MAX_RECENT_MESSAGES
  THEN SpliceRest(roomMessages, Len(roomMessages) - MAX_RECENT_MESSAGES)
  ELSE roomMessages

\* getRecentMessages: messages.slice(-limit).reverse()
getRecentMessages_NoReverse(roomId, limit) == Slice(RoomMessages(roomId), -limit)
getRecentMessages(roomId, limit) == Reverse(Slice(RoomMessages(roomId), -limit))

\* flushToDatabase, up to the await: messagesToWrite = pendingWrites.splice(0, BATCH_SIZE)
MessagesToWrite_Tail(queue) == LastN(queue, Min(BATCH_SIZE, Len(queue)))
MessagesToWrite(queue) == SpliceHead(queue, BATCH_SIZE)
AfterDrain_Tail(queue) == SubSeq(queue, 1, Len(queue) - Min(BATCH_SIZE, Len(queue)))
AfterDrain(queue) == SpliceRest(queue, BATCH_SIZE)

\* the call of flushToDatabase on a queue: one batch leaves the queue and is
\* submitted; pre and startId are history (the queue and id counter at the call)
StartFlush(queue, idNow) ==
  IF Len(queue) = 0
  THEN /\ pendingWrites' = queue
       /\ inflight' = inflight
  ELSE /\ pendingWrites' = AfterDrain(queue)
       /\ inflight' = inflight \cup
            {[batch |-> MessagesToWrite(queue), pre |-> queue, startId |-> idNow]}

\* flushToDatabase, catch block: unshift the batch, then cap the queue
Requeue_NoCap(batch, queue) == batch \o queue
Requeue_Tail(batch, queue) == queue \o batch
Requeue(batch, queue) ==
  LET q == batch \o queue
  IN  IF Len(q) > EMERGENCY_FLUSH_SIZE * 2
      THEN SpliceRest(q, Len(q) - EMERGENCY_FLUSH_SIZE)
      ELSE q

Ids(s) == {s[i].id : i \in 1..Len(s)}
\* the ids of the messages that the cap of the catch block cuts off
Overflow(batch, queue) ==
  LET q == batch \o queue
  IN  IF Len(q) > EMERGENCY_FLUSH_SIZE * 2
      THEN Ids(SpliceHead(q, Len(q) - EMERGENCY_FLUSH_SIZE))
      ELSE {}

\* insertMany of a set of messages: one new document each
Insert(ids) == [i \in DOMAIN stored |-> IF i \in ids THEN stored[i] + 1 ELSE stored[i]]

\* addMessage(roomId, ...): the buffer afterwards (lastOp.ret is the message returned)
BufferAdd_NoEmergency(roomId) ==
  LET messageData == [id |-> nextId, roomId |-> roomId]
      roomMessages == TrimRecent(Append(RoomMessages(roomId), messageData))
      queue == Append(pendingWrites, messageData)
  IN  /\ recentMessages' =
           [r \in DOMAIN recentMessages \cup {roomId} |->
              IF r = roomId THEN roomMessages ELSE recentMessages[r]]
      /\ nextId' = nextId + 1
      /\ pendingWrites' = queue /\ inflight' = inflight
      /\ added' = [added EXCEPT ![roomId] = Append(@, messageData)]
      /\ drain' = [P |-> Len(queue), N |-> 0]
      /\ UNCHANGED <<stored, failures, dropped, clearedAt>>
BufferAdd(roomId) ==
  LET messageData == [id |-> nextId, roomId |-> roomId]
      roomMessages == TrimRecent(Append(RoomMessages(roomId), messageData))
      queue == Append(pendingWrites, messageData)
      emergency == Len(queue) >= EMERGENCY_FLUSH_SIZE
  IN  /\ recentMessages' =
           [r \in DOMAIN recentMessages \cup {roomId} |->
              IF r = roomId THEN roomMessages ELSE recentMessages[r]]
      /\ nextId' = nextId + 1
      /\ IF emergency
         THEN StartFlush(queue, nextId + 1)
         ELSE pendingWrites' = queue /\ inflight' = inflight
      /\ added' = [added EXCEPT ![roomId] = Append(@, messageData)]
      /\ drain' = [P |-> Len(queue), N |-> IF emergency THEN 1 ELSE 0]
      /\ UNCHANGED <<stored, failures, dropped, clearedAt>>

addMessage(roomId) ==
  /\ nextId <= MaxMsgs
  /\ BufferAdd(roomId)
  /\ lastOp' = [op |-> "addMessage", roomId |-> roomId,
                ret |-> [id |-> nextId, roomId |-> roomId]]
  /\ UNCHANGED <<regVars, appVars>>

getRecent(roomId, limit) ==
  /\ lastOp' = [op |-> "getRecentMessages", roomId |-> roomId, limit |-> limit,
                ret |-> getRecentMessages(roomId, limit)]
  /\ UNCHANGED <<bufVars, appVars>>
  /\ UNCHANGED <<regVars, appVars>>

\* clearRoomMessages(roomId), called when a room ends: the room's recent list
\* is deleted and its messages are filtered out of the queue
clearRoomMessages(roomId) ==
  /\ recentMessages' = [r \in DOMAIN recentMessages \ {roomId} |-> recentMessages[r]]
  /\ pendingWrites' = SelectSeq(pendingWrites, LAMBDA msg : msg.roomId # roomId)
  /\ clearedAt' = [clearedAt EXCEPT ![roomId] = nextId]
  /\ lastOp' = [op |-> "clearRoomMessages", roomId |-> roomId]
  /\ UNCHANGED <<inflight, stored, nextId, failures, added, dropped, drain>>
  /\ UNCHANGED <<regVars, appVars>>

\* setInterval callback of startPeriodicFlush
periodicFlush ==
  /\ Len(pendingWrites) > 0
  /\ StartFlush(pendingWrites, nextId)
  /\ drain' = [drain EXCEPT !.N = @ + 1]
  /\ lastOp' = [op |-> "flushToDatabase"]
  /\ UNCHANGED <<recentMessages, stored, nextId, failures, added, dropped, clearedAt>>
  /\ UNCHANGED <<regVars, appVars>>

\* forceFlush, up to its await
forceFlush ==
  /\ IF Len(pendingWrites) = 0
     THEN UNCHANGED <<pendingWrites, inflight, drain>>
     ELSE /\ StartFlush(pendingWrites, nextId)
          /\ drain' = [drain EXCEPT !.N = @ + 1]
  /\ lastOp' = [op |-> IF Len(pendingWrites) = 0 THEN "forceFlush" ELSE "flushToDatabase",
                caller |-> "forceFlush", pre |-> pendingWrites, startId |-> nextId]
  /\ UNCHANGED <<recentMessages, stored, nextId, failures, added, dropped, clearedAt>>
  /\ UNCHANGED <<regVars, appVars>>

\* insertMany resolves: the batch is stored and dropped
flushSucceeds(f) ==
  /\ f \in inflight
  /\ stored' = Insert(Ids(f.batch))
  /\ inflight' = inflight \ {f}
  /\ lastOp' = [op |-> "flushSucceeds", flight |-> f]
  /\ UNCHANGED <<recentMessages, pendingWrites, nextId, failures, added, dropped,
                 clearedAt, drain>>
  /\ UNCHANGED <<regVars, appVars>>

\* insertMany rejects; with ordered: false the documents in `written` were
\* inserted all the same
flushFails(f, written) ==
  /\ f \in inflight
  /\ failures < MaxFails
  /\ written \subseteq Ids(f.batch)
  /\ stored' = Insert(written)
  /\ inflight' = inflight \ {f}
  /\ pendingWrites' = Requeue(f.batch, pendingWrites)
  /\ dropped' = dropped \cup Overflow(f.batch, pendingWrites)
  /\ failures' = failures + 1
  /\ drain' = [P |-> Len(pendingWrites'), N |-> 0]
  /\ lastOp' = [op |-> "flushFails", flight |-> f,
                overflow |-> Len(f.batch) + Len(pendingWrites) > EMERGENCY_FLUSH_SIZE * 2]
  /\ UNCHANGED <<recentMessages, nextId, added, clearedAt>>
  /\ UNCHANGED <<regVars, appVars>>

\* onApplicationShutdown: the hook is called
shutdownBegin ==
  /\ shutdown.pc = "running"
  /\ shutdown' = [pc |-> "loop"]
  /\ lastOp' = [op |-> "onApplicationShutdown"]
  /\ UNCHANGED <<bufVars, regVars, userModel, clients, pending, received, deleted, liveRoomModel>>

\* while (this.pendingWrites.length > 0) await this.flushToDatabase():
\* the loop test and the call, up to the await on insertMany
shutdownLoop ==
  /\ shutdown.pc = "loop"
  /\ IF Len(pendingWrites) > 0
     THEN /\ StartFlush(pendingWrites, nextId)
          /\ drain' = [drain EXCEPT !.N = @ + 1]
          /\ shutdown' = [pc |-> "await",
                          flight |-> [batch |-> MessagesToWrite(pendingWrites),
                                      pre |-> pendingWrites, startId |-> nextId]]
     ELSE /\ shutdown' = [pc |-> "done"]
          /\ UNCHANGED <<pendingWrites, inflight, drain>>
  /\ lastOp' = [op |-> "shutdownLoop"]
  /\ UNCHANGED <<recentMessages, stored, nextId, failures, added, dropped, clearedAt>>
  /\ UNCHANGED <<regVars, userModel, clients, pending, received, deleted, liveRoomModel>>

\* the insertMany the loop awaits resolves
shutdownFlushSucceeds ==
  /\ shutdown.pc = "await"
  /\ shutdown.flight \in inflight
  /\ stored' = Insert(Ids(shutdown.flight.batch))
  /\ inflight' = inflight \ {shutdown.flight}
  /\ shutdown' = [pc |-> "loop"]
  /\ lastOp' = [op |-> "flushSucceeds"]
  /\ UNCHANGED <<recentMessages, pendingWrites, nextId, failures, added, dropped,
                 clearedAt, drain>>
  /\ UNCHANGED <<regVars, userModel, clients, pending, received, deleted, liveRoomModel>>

\* the insertMany the loop awaits rejects: flushToDatabase requeues the batch
\* and returns normally, and the loop goes on
shutdownFlushFails ==
  /\ shutdown.pc = "await"
  /\ shutdown.flight \in inflight
  /\ inflight' = inflight \ {shutdown.flight}
  /\ pendingWrites' = Requeue(shutdown.flight.batch, pendingWrites)
  /\ dropped' = dropped \cup Overflow(shutdown.flight.batch, pendingWrites)
  /\ drain' = [P |-> Len(pendingWrites'), N |-> 0]
  /\ shutdown' = [pc |-> "loop"]
  /\ lastOp' = [op |-> "flushFails", flight |-> shutdown.flight,
                overflow |-> Len(shutdown.flight.batch) + Len(pendingWrites)
                               > EMERGENCY_FLUSH_SIZE * 2]
  /\ UNCHANGED <<recentMessages, stored, nextId, failures, added, clearedAt>>
  /\ UNCHANGED <<regVars, userModel, clients, pending, received, deleted, liveRoomModel>>

\* ------------------------------------------------------------- SessionManager
\* the value of `null`
NULL == [null |-> TRUE]
\* a document of the users collection, and a socket before its handshake
UserDocument == [isActive |-> TRUE, isBanned |-> FALSE, bannedBy |-> "undefined"]
NewSocket == [state |-> "new", user |-> "undefined", rooms |-> {}]

\* Map.set, Map.delete, Map.get(k)?.delete(x), Map.get(k) with a new Set added
MapSet(m, k, v) == [x \in DOMAIN m \cup {k} |-> IF x = k THEN v ELSE m[x]]
MapDelete(m, k) == [x \in DOMAIN m \ {k} |-> m[x]]
SetDelete(m, k, x) == IF k \in DOMAIN m THEN [m EXCEPT ![k] = @ \ {x}] ELSE m
SetAdd(m, k, x) == IF k \in DOMAIN m THEN [m EXCEPT ![k] = @ \cup {x}] ELSE MapSet(m, k, {x})

\* the four maps that join and leave write, as one value
Registry ==
  [userSessions |-> userSessions, userRooms |-> userRooms,
   roomUsers |-> roomUsers, typingUsers |-> typingUsers]

\* sockets whose session belongs to userId
SocketsOf(sessions, userId) ==
  {c \in DOMAIN sessions : sessions[c].userId = userId}
\* the first session of userId that iterating the Map finds (at most one
\* session per user exists, see C8; with several, one of them)
FirstSocketOf(sessions, userId) == CHOOSE c \in SocketsOf(sessions, userId) : TRUE

\* removeUserFromAllRooms(userId)
removeUserFromAllRooms_KeepSession(reg, userId) ==
  LET known == userId \in DOMAIN reg.userRooms
      roomId == reg.userRooms[userId]
  IN  [reg EXCEPT
         !.roomUsers = IF known THEN SetDelete(@, roomId, userId) ELSE @,
         !.typingUsers = IF known THEN SetDelete(@, roomId, userId) ELSE @,
         !.userRooms = MapDelete(@, userId)]
removeUserFromAllRooms(reg, userId) ==
  LET known == userId \in DOMAIN reg.userRooms
      roomId == reg.userRooms[userId]
  IN  [reg EXCEPT
         !.roomUsers = IF known THEN SetDelete(@, roomId, userId) ELSE @,
         !.typingUsers = IF known THEN SetDelete(@, roomId, userId) ELSE @,
         !.userRooms = MapDelete(@, userId),
         !.userSessions =
            IF SocketsOf(@, userId) # {}
            THEN MapDelete(@, FirstSocketOf(@, userId))
            ELSE @]

\* removeUserFromRoom(socketId): the registry afterwards
removeUserFromRoom_NoGuard(reg, socketId) ==
  IF socketId \notin DOMAIN reg.userSessions
  THEN [reg EXCEPT !.typingUsers = [r \in DOMAIN @ |-> {}]]
  ELSE LET userSession == reg.userSessions[socketId]
       IN  [reg EXCEPT
              !.userSessions = MapDelete(@, socketId),
              !.userRooms = MapDelete(@, userSession.userId),
              !.roomUsers = SetDelete(@, userSession.roomId, userSession.userId),
              !.typingUsers = SetDelete(@, userSession.roomId, userSession.userId)]
removeUserFromRoom(reg, socketId) ==
  IF socketId \notin DOMAIN reg.userSessions
  THEN reg
  ELSE LET userSession == reg.userSessions[socketId]
       IN  [reg EXCEPT
              !.userSessions = MapDelete(@, socketId),
              !.userRooms = MapDelete(@, userSession.userId),
              !.roomUsers = SetDelete(@, userSession.roomId, userSession.userId),
              !.typingUsers = SetDelete(@, userSession.roomId, userSession.userId)]
\* removeUserFromRoom(socketId): the value returned
RemovedSession(reg, socketId) ==
  IF socketId \in DOMAIN reg.userSessions THEN reg.userSessions[socketId] ELSE NULL

\* addUserToRoom(socketId, userId, username, roomId)
addUserToRoom(reg, socketId, userId, roomId) ==
  LET cleared == removeUserFromAllRooms(reg, userId)
      userSession == [userId |-> userId, socketId |-> socketId, roomId |-> roomId,
                      lastActivity |-> now]
  IN  [cleared EXCEPT
         !.userSessions = MapSet(@, socketId, userSession),
         !.userRooms = MapSet(@, userId, roomId),
         !.roomUsers = SetAdd(@, roomId, userId)]

\* cleanupInactiveUsers: removeUserFromRoom for each socket collected
RECURSIVE RemoveAll(_, _)
RemoveAll(reg, sockets) ==
  IF sockets = {} THEN reg
  ELSE LET c == CHOOSE x \in sockets : TRUE
       IN  RemoveAll(removeUserFromRoom(reg, c), sockets \ {c})
SessionsToRemove_AtThreshold(sessions, threshold) ==
  {c \in DOMAIN sessions : now - sessions[c].lastActivity >= threshold}
SessionsToRemove(sessions, threshold) ==
  {c \in DOMAIN sessions : now - sessions[c].lastActivity > threshold}

\* checkRateLimit: requests.filter(time => now - time < windowMs)
RecentRequests_Closed(requests, windowMs) ==
  SelectSeq(requests, LAMBDA time : now - time <= windowMs)
RecentRequests(requests, windowMs) ==
  SelectSeq(requests, LAMBDA time : now - time < windowMs)
\* this.rateLimitMap.get(socketId) || []
Requests(socketId) ==
  IF socketId \in DOMAIN rateLimitMap THEN rateLimitMap[socketId] ELSE <<>>

SetRegistry(reg) ==
  /\ userSessions' = reg.userSessions
  /\ userRooms' = reg.userRooms
  /\ roomUsers' = reg.roomUsers
  /\ typingUsers' = reg.typingUsers

\* join: SessionManager.addUserToRoom
join(socketId, userId, roomId) ==
  /\ SetRegistry(addUserToRoom(Registry, socketId, userId, roomId))
  /\ lastOp' = [op |-> "addUserToRoom", socketId |-> socketId, userId |-> userId,
                roomId |-> roomId, evicted |-> SocketsOf(userSessions, userId)]
  /\ UNCHANGED <<roomMessageCounts, rateLimitMap, now, rateCalls>>
  /\ UNCHANGED <<bufVars, appVars>>

\* leave and transport close: SessionManager.removeUserFromRoom
leave(socketId) ==
  /\ SetRegistry(removeUserFromRoom(Registry, socketId))
  /\ lastOp' = [op |-> "removeUserFromRoom", socketId |-> socketId,
                ret |-> RemovedSession(Registry, socketId)]
  /\ UNCHANGED <<roomMessageCounts, rateLimitMap, now, rateCalls>>
  /\ UNCHANGED <<bufVars, appVars>>

\* admin ban: SessionManager.disconnectUser
disconnectUser(userId) ==
  /\ SetRegistry(IF SocketsOf(userSessions, userId) # {}
                 THEN removeUserFromRoom(Registry, FirstSocketOf(userSessions, userId))
                 ELSE Registry)
  /\ lastOp' = [op |-> "disconnectUser"]
  /\ UNCHANGED <<roomMessageCounts, rateLimitMap, now, rateCalls>>
  /\ UNCHANGED <<bufVars, appVars>>

\* the interval callback: SessionManager.cleanupInactiveUsers
cleanupInactiveUsers(threshold) ==
  /\ SetRegistry(RemoveAll(Registry, SessionsToRemove(userSessions, threshold)))
  /\ lastOp' = [op |-> "cleanupInactiveUsers"]
  /\ UNCHANGED <<roomMessageCounts, rateLimitMap, now, rateCalls>>
  /\ UNCHANGED <<bufVars, appVars>>

updateUserActivity(userId) ==
  /\ userSessions' =
       IF SocketsOf(userSessions, userId) # {}
       THEN [userSessions EXCEPT ![FirstSocketOf(userSessions, userId)].lastActivity = now]
       ELSE userSessions
  /\ lastOp' = [op |-> "updateUserActivity", userId |-> userId]
  /\ UNCHANGED <<userRooms, roomUsers, roomMessageCounts, typingUsers, rateLimitMap,
                 now, rateCalls>>
  /\ UNCHANGED <<bufVars, appVars>>

incrementMessageCount(roomId) ==
  /\ LET current == IF roomId \in DOMAIN roomMessageCounts
                    THEN roomMessageCounts[roomId] ELSE 0
     IN  /\ current < MaxCount
         /\ roomMessageCounts' = MapSet(roomMessageCounts, roomId, current + 1)
  /\ lastOp' = [op |-> "incrementMessageCount"]
  /\ UNCHANGED <<userSessions, userRooms, roomUsers, typingUsers, rateLimitMap,
                 now, rateCalls>>
  /\ UNCHANGED <<bufVars, appVars>>

addTypingUser(roomId, userId) ==
  /\ typingUsers' = SetAdd(typingUsers, roomId, userId)
  /\ lastOp' = [op |-> "addTypingUser"]
  /\ UNCHANGED <<userSessions, userRooms, roomUsers, roomMessageCounts, rateLimitMap,
                 now, rateCalls>>
  /\ UNCHANGED <<bufVars, appVars>>

removeTypingUser(roomId, userId) ==
  /\ typingUsers' = SetDelete(typingUsers, roomId, userId)
  /\ lastOp' = [op |-> "removeTypingUser"]
  /\ UNCHANGED <<userSessions, userRooms, roomUsers, roomMessageCounts, rateLimitMap,
                 now, rateCalls>>
  /\ UNCHANGED <<bufVars, appVars>>

checkRateLimit(socketId, maxRequests, windowMs) ==
  /\ Len(rateCalls[socketId]) < MaxCalls
  /\ LET recentRequests == RecentRequests(Requests(socketId), windowMs)
         admit == ~(Len(recentRequests) >= maxRequests)
     IN  /\ rateLimitMap' =
              IF admit
              THEN MapSet(rateLimitMap, socketId, Append(recentRequests, now))
              ELSE rateLimitMap
         /\ rateCalls' = [rateCalls EXCEPT
              ![socketId] = Append(@, [time |-> now, admitted |-> admit])]
         /\ lastOp' = [op |-> "checkRateLimit", socketId |-> socketId, ret |-> admit]
  /\ UNCHANGED <<userSessions, userRooms, roomUsers, roomMessageCounts, typingUsers, now>>
  /\ UNCHANGED <<bufVars, appVars>>

\* time passes
tick ==
  /\ now < MaxTime
  /\ now' = now + 1
  /\ lastOp' = [op |-> "tick"]
  /\ UNCHANGED <<userSessions, userRooms, roomUsers, roomMessageCounts, typingUsers,
                 rateLimitMap, rateCalls>>
  /\ UNCHANGED <<bufVars, appVars>>

\* ----------------------------------------------------------------- ChatGateway
\* String.trim on a message given as its characters
RECURSIVE TrimLeft(_)
TrimLeft(message) ==
  IF message # <<>> /\ Head(message) = " " THEN TrimLeft(Tail(message)) ELSE message
Trim(message) == Reverse(TrimLeft(Reverse(TrimLeft(message))))

\* frames a client sends: the message bodies and the room ids
Messages == {<<>>, <<" ">>, <<"a">>, <<"a", "a", "a">>}
\* (banned is history: the sender's ban was in force when the frame arrived;
\* recent is the local recentMessages of a suspended handleJoinRoom)
NoData == [roomId |-> "", message |-> <<>>, isTyping |-> FALSE, userId |-> "",
           banned |-> FALSE, recent |-> <<>>]
\* a handler suspended at an await on the database
Handler(event, pc, socketId, data) ==
  [event |-> event, pc |-> pc, socketId |-> socketId, data |-> data]

\* client.emit, server.to(room).emit, client.to(room).emit, server.emit: the
\* frames that reach sockets whose transport is open
Open(cl, c) == cl[c].state = "open"
\* (viewerCount is -1 in a frame that carries none)
Frame(c, event, code) == [to |-> c, event |-> event, code |-> code, viewerCount |-> -1]
Counted(frames, viewerCount) == {[f EXCEPT !.viewerCount = viewerCount] : f \in frames}
\* getRoomUserCount(roomId): this.roomUsers.get(roomId)?.size || 0
getRoomUserCount(users, roomId) ==
  IF roomId \in DOMAIN users THEN Cardinality(users[roomId]) ELSE 0
\* ChatService.updateViewerCount(roomId, getRoomUserCount(roomId)):
\* liveRoomModel.updateOne({ roomId }, { viewerCount: count })
updateViewerCount(roomId, users) ==
  IF roomId \in DOMAIN liveRoomModel
  THEN [liveRoomModel EXCEPT ![roomId] = getRoomUserCount(users, roomId)]
  ELSE liveRoomModel
ToSocket(cl, c, event, code) == IF Open(cl, c) THEN {Frame(c, event, code)} ELSE {}
ToRoom(cl, roomId, event) ==
  {Frame(c, event, "") : c \in {x \in Sockets : Open(cl, x) /\ roomId \in cl[x].rooms}}
ToOthers(cl, socketId, roomId, event) ==
  {f \in ToRoom(cl, roomId, event) : f.to # socketId}
ToAll(cl, event) == {Frame(c, event, "") : c \in {x \in Sockets : Open(cl, x)}}
\* the events `received` keeps
Recorded == {"connected"}
Deliver(emits) ==
  received' = [c \in Sockets |->
                 received[c] \cup {f.event : f \in {x \in emits : x.to = c /\ x.event \in Recorded}}]

\* the socket closes (client.disconnect() or the transport): socket.io takes it
\* out of its rooms, then handleDisconnect removes its session
CloseSocket(cl, c) == [cl EXCEPT ![c].state = "closed", ![c].rooms = {}]
handleDisconnect(reg, socketId) ==
  LET userSession == RemovedSession(reg, socketId)
      removed == removeUserFromRoom(reg, socketId)
  IN  IF userSession = NULL THEN removed
      ELSE [removed EXCEPT
              !.typingUsers = SetDelete(@, userSession.roomId, userSession.userId)]
DisconnectEmits(cl, reg, socketId) ==
  IF RemovedSession(reg, socketId) = NULL THEN {}
  ELSE LET roomId == RemovedSession(reg, socketId).roomId
       IN  Counted(ToOthers(cl, socketId, roomId, "userLeft"),
                   getRoomUserCount(handleDisconnect(reg, socketId).roomUsers, roomId))

\* handleDisconnect: the viewer count persisted for the room of the session
DisconnectViewers(reg, socketId) ==
  IF RemovedSession(reg, socketId) = NULL THEN liveRoomModel
  ELSE updateViewerCount(RemovedSession(reg, socketId).roomId,
                         handleDisconnect(reg, socketId).roomUsers)

\* WsAuthMiddleware.use, then handleConnection up to its await on the ban check
Credentials == {"none", "invalid"} \cup Users
wsConnect(c, credential) ==
  /\ clients[c].state = "new"
  /\ LET error == CASE credential = "none" -> "No authentication token found"
                    [] credential = "invalid" -> "Invalid authentication token"
                    [] ~userModel[credential].isActive -> "User not found or inactive"
                    [] OTHER -> ""
     IN  IF error # ""
         THEN /\ clients' = [clients EXCEPT ![c].state = "closed"]
              /\ pending' = pending
              /\ lastOp' = [op |-> "connect", socketId |-> c, outcome |-> "rejected",
                            emits |-> {Frame(c, "connect_error", error)}]
         ELSE /\ clients' = [clients EXCEPT ![c] =
                               [state |-> "open", user |-> credential, rooms |-> {}]]
              /\ pending' = pending \cup {Handler("connection", "ban", c, NoData)}
              /\ lastOp' = [op |-> "connect", socketId |-> c, outcome |-> "accepted",
                            emits |-> {}]
  /\ UNCHANGED <<bufVars, regVars, userModel, received, deleted, liveRoomModel, shutdown>>

\* handleConnection after checkUserBannedStatus
connectionResume(p) ==
  /\ p \in pending /\ p.event = "connection"
  /\ LET c == p.socketId
         bannedStatus == userModel[clients[c].user]
         closed == CloseSocket(clients, c)
     IN  IF bannedStatus.isBanned
         THEN /\ clients' = closed
              /\ SetRegistry(IF Open(clients, c)
                             THEN handleDisconnect(Registry, c) ELSE Registry)
              /\ liveRoomModel' = IF Open(clients, c)
                                  THEN DisconnectViewers(Registry, c) ELSE liveRoomModel
              /\ received' = received
              /\ lastOp' = [op |-> "handleConnection", socketId |-> c,
                            outcome |-> "banned",
                            emits |-> ToSocket(clients, c, "error", "USER_BANNED") \cup
                                      (IF Open(clients, c)
                                       THEN DisconnectEmits(closed, Registry, c) ELSE {})]
         ELSE /\ clients' = clients
              /\ SetRegistry(Registry)
              /\ liveRoomModel' = liveRoomModel
              /\ Deliver(ToSocket(clients, c, "connected", ""))
              /\ lastOp' = [op |-> "handleConnection", socketId |-> c,
                            outcome |-> "connected",
                            emits |-> ToSocket(clients, c, "connected", "")]
  /\ pending' = pending \ {p}
  /\ UNCHANGED <<roomMessageCounts, rateLimitMap, now, rateCalls>>
  /\ UNCHANGED <<bufVars, userModel, deleted, shutdown>>

\* the client closes the transport: handleDisconnect
clientDisconnect(c) ==
  /\ Open(clients, c)
  /\ clients' = CloseSocket(clients, c)
  /\ SetRegistry(handleDisconnect(Registry, c))
  /\ liveRoomModel' = DisconnectViewers(Registry, c)
  /\ lastOp' = [op |-> "handleDisconnect", socketId |-> c, outcome |-> "closed",
                emits |-> DisconnectEmits(CloseSocket(clients, c), Registry, c)]
  /\ UNCHANGED <<roomMessageCounts, rateLimitMap, now, rateCalls>>
  /\ UNCHANGED <<bufVars, userModel, pending, received, deleted, shutdown>>

\* a client sends a frame; its handler first awaits WsJwtAuthGuard.canActivate
Events == {"joinRoom", "leaveRoom", "sendMessage", "typing"}
clientEvent(c, event, data) ==
  /\ Open(clients, c)
  /\ Cardinality(pending) < MaxPending
  /\ LET h == Handler(event, "guard", c,
                      [data EXCEPT !.banned = userModel[clients[c].user].isBanned])
     IN  /\ h \notin pending
         /\ pending' = pending \cup {h}
  /\ lastOp' = [op |-> "frame", socketId |-> c, event |-> event, emits |-> {}]
  /\ UNCHANGED <<bufVars, regVars, userModel, clients, received, deleted, liveRoomModel, shutdown>>

\* what a step of a handler leaves behind
Step(reg, cl, rate, calls, next, emits, outcome) ==
  [reg |-> reg, clients |-> cl, rateLimitMap |-> rate, rateCalls |-> calls,
   next |-> next, emits |-> emits, outcome |-> outcome]
Same(next, emits, outcome) ==
  Step(Registry, clients, rateLimitMap, rateCalls, next, emits, outcome)

\* handleJoinRoom up to its await on getRoomInfo
JoinRoomStep(p, userId) ==
  LET c == p.socketId
      roomId == p.data.roomId
      joined == IF Open(clients, c)
                THEN [clients EXCEPT ![c].rooms = @ \cup {roomId}] ELSE clients
  IN  IF roomId = ""
      THEN Same({}, ToSocket(clients, c, "error", "Invalid room data"), "invalid")
      ELSE Step(addUserToRoom(Registry, c, userId, roomId), joined, rateLimitMap,
                rateCalls,
                {Handler("joinRoom", "roomInfo", c,
                         [p.data EXCEPT !.recent = getRecentMessages(roomId, 100)])},
                {}, "joined")

\* handleLeaveRoom
LeaveRoomStep(p, userId) ==
  LET c == p.socketId
      roomId == p.data.roomId
      left == [clients EXCEPT ![c].rooms = @ \ {roomId}]
      userSession == RemovedSession(Registry, c)
      removed == removeUserFromRoom(Registry, c)
  IN  IF userSession = NULL
      THEN Step(removed, left, rateLimitMap, rateCalls, {}, {}, "no session")
      ELSE Step([removed EXCEPT !.typingUsers = SetDelete(@, roomId, userId)],
                left, rateLimitMap, rateCalls, {},
                Counted(ToOthers(left, c, roomId, "userLeft"),
                        getRoomUserCount(removed.roomUsers, roomId)), "left")

\* handleMessage up to its await on checkUserBannedStatus
RateAdmits_Always(socketId) == TRUE
RateAdmits(socketId) ==
  ~(Len(RecentRequests(Requests(socketId), rateLimitWindowMs)) >= rateLimitMaxRequests)
SendMessageStep(p) ==
  LET c == p.socketId
      admit == RateAdmits(c)
      calls == [rateCalls EXCEPT ![c] = Append(@, [time |-> now, admitted |-> admit])]
  IN  IF ~admit
      THEN Step(Registry, clients, rateLimitMap, calls, {},
                ToSocket(clients, c, "error", "Rate limit exceeded"), "rate limited")
      ELSE Step(Registry, clients,
                MapSet(rateLimitMap, c,
                       Append(RecentRequests(Requests(c), rateLimitWindowMs), now)),
                calls, {Handler("sendMessage", "ban", c, p.data)}, {}, "admitted")

\* handleTyping
TypingStep(p, userId) ==
  LET c == p.socketId
      roomId == p.data.roomId
      typing == IF p.data.isTyping
                THEN SetAdd(typingUsers, roomId, userId)
                ELSE SetDelete(typingUsers, roomId, userId)
      sessions == IF p.data.isTyping /\ SocketsOf(userSessions, userId) # {}
                  THEN [userSessions EXCEPT
                          ![FirstSocketOf(userSessions, userId)].lastActivity = now]
                  ELSE userSessions
  IN  IF c \notin DOMAIN userSessions
      THEN Same({}, {}, "no session")
      ELSE Step([Registry EXCEPT !.typingUsers = typing, !.userSessions = sessions],
                clients, rateLimitMap, rateCalls, {},
                ToOthers(clients, c, roomId, "userTyping"), "typing")

\* the guard has answered: the handler runs up to its next await on the database
GuardStep(p) ==
  LET userId == clients[p.socketId].user
  IN  IF ~userModel[userId].isActive
      THEN Same({}, ToSocket(clients, p.socketId, "exception", "User not found or inactive"),
                "unauthorized")
      ELSE CASE p.event = "joinRoom" -> JoinRoomStep(p, userId)
             [] p.event = "leaveRoom" -> LeaveRoomStep(p, userId)
             [] p.event = "sendMessage" -> SendMessageStep(p)
             [] p.event = "typing" -> TypingStep(p, userId)

guardResume(p) ==
  /\ p \in pending /\ p.pc = "guard"
  /\ p.event = "sendMessage" => Len(rateCalls[p.socketId]) < MaxCalls
  /\ LET step == GuardStep(p)
     IN  /\ SetRegistry(step.reg)
         /\ clients' = step.clients
         /\ rateLimitMap' = step.rateLimitMap
         /\ rateCalls' = step.rateCalls
         /\ pending' = (pending \ {p}) \cup step.next
         /\ liveRoomModel' = IF p.event = "leaveRoom" /\ step.outcome = "left"
                             THEN updateViewerCount(p.data.roomId, step.reg.roomUsers)
                             ELSE liveRoomModel
         /\ lastOp' = [op |-> p.event, socketId |-> p.socketId, outcome |-> step.outcome,
                       emits |-> step.emits, handler |-> p]
  /\ UNCHANGED <<roomMessageCounts, now>>
  /\ UNCHANGED <<bufVars, userModel, received, deleted, shutdown>>

\* handleJoinRoom after getRoomInfo: the reply and the presence broadcast
joinResume(p) ==
  /\ p \in pending /\ p.event = "joinRoom" /\ p.pc = "roomInfo"
  /\ pending' = pending \ {p}
  /\ lastOp' = [op |-> "joinRoom", socketId |-> p.socketId, outcome |-> "replied",
                emits |-> Counted(ToSocket(clients, p.socketId, "joinedRoom", "") \cup
                                  ToOthers(clients, p.socketId, p.data.roomId, "userJoined"),
                                  getRoomUserCount(roomUsers, p.data.roomId)),
                messages |-> Reverse(p.data.recent),
                handler |-> p]
  /\ liveRoomModel' = updateViewerCount(p.data.roomId, roomUsers)
  /\ UNCHANGED <<bufVars, regVars, userModel, clients, received, deleted, shutdown>>

\* handleMessage after checkUserBannedStatus: which check decides the send
MAX_MESSAGE_LENGTH == 2
SendOutcome_ContentFirst(p) ==
  LET c == p.socketId
      user == clients[c].user
      message == p.data.message
  IN  CASE userModel[user].isBanned -> "banned"
        [] message = <<>> \/ Len(Trim(message)) = 0 -> "ignored"
        [] Len(message) > MAX_MESSAGE_LENGTH -> "too long"
        [] c \notin DOMAIN userSessions -> "SESSION_NOT_FOUND"
        [] userSessions[c].userId # user -> "AUTH_MISMATCH"
        [] OTHER -> "sent"
SendOutcome_NoBanCheck(p) ==
  LET c == p.socketId
      user == clients[c].user
      message == p.data.message
  IN  CASE c \notin DOMAIN userSessions -> "SESSION_NOT_FOUND"
        [] userSessions[c].userId # user -> "AUTH_MISMATCH"
        [] message = <<>> \/ Len(Trim(message)) = 0 -> "ignored"
        [] Len(message) > MAX_MESSAGE_LENGTH -> "too long"
        [] OTHER -> "sent"
SendOutcome(p) ==
  LET c == p.socketId
      user == clients[c].user
      message == p.data.message
  IN  CASE userModel[user].isBanned -> "banned"
        [] c \notin DOMAIN userSessions -> "SESSION_NOT_FOUND"
        [] userSessions[c].userId # user -> "AUTH_MISMATCH"
        [] message = <<>> \/ Len(Trim(message)) = 0 -> "ignored"
        [] Len(message) > MAX_MESSAGE_LENGTH -> "too long"
        [] OTHER -> "sent"

\* the registry after a send: the ban path removes the session, the success
\* path runs updateUserActivity and removeTypingUser
SendRegistry_KeepTyping(p, outcome) ==
  LET c == p.socketId
  IN  CASE outcome = "banned" -> removeUserFromRoom(Registry, c)
        [] outcome = "sent" ->
             [Registry EXCEPT
                !.userSessions =
                   [@ EXCEPT ![FirstSocketOf(@, clients[c].user)].lastActivity = now]]
        [] OTHER -> Registry
SendRegistry(p, outcome) ==
  LET c == p.socketId
  IN  CASE outcome = "banned" -> removeUserFromRoom(Registry, c)
        [] outcome = "sent" ->
             [Registry EXCEPT
                !.userSessions =
                   [@ EXCEPT ![FirstSocketOf(@, clients[c].user)].lastActivity = now],
                !.typingUsers =
                   SetDelete(@, userSessions[c].roomId, userSessions[c].userId)]
        [] OTHER -> Registry

SendEmits_Silent(p, outcome) ==
  LET c == p.socketId
  IN  CASE outcome = "banned" -> ToSocket(clients, c, "user:banned", "USER_BANNED")
        [] outcome = "sent" -> ToRoom(clients, userSessions[c].roomId, "newMessage")
        [] OTHER -> {}
SendEmits(p, outcome) ==
  LET c == p.socketId
  IN  CASE outcome = "banned" -> ToSocket(clients, c, "user:banned", "USER_BANNED")
        [] outcome = "ignored" -> {}
        [] outcome = "sent" -> ToRoom(clients, userSessions[c].roomId, "newMessage")
        [] OTHER -> ToSocket(clients, c, "error", outcome)

sendResume(p) ==
  /\ p \in pending /\ p.event = "sendMessage" /\ p.pc = "ban"
  /\ LET c == p.socketId
         outcome == SendOutcome(p)
         roomId == userSessions[c].roomId
         current == IF roomId \in DOMAIN roomMessageCounts
                    THEN roomMessageCounts[roomId] ELSE 0
     IN  /\ outcome = "sent" => nextId <= MaxMsgs
         /\ IF outcome = "sent"
            THEN /\ BufferAdd(roomId)
                 /\ roomMessageCounts' = MapSet(roomMessageCounts, roomId, current + 1)
            ELSE UNCHANGED <<bufVars, roomMessageCounts>>
         /\ SetRegistry(SendRegistry(p, outcome))
         /\ clients' = IF outcome = "banned" THEN CloseSocket(clients, c) ELSE clients
         /\ lastOp' = [op |-> "sendMessage", socketId |-> c, outcome |-> outcome,
                       emits |-> SendEmits(p, outcome), handler |-> p,
                       hadSession |-> c \in DOMAIN userSessions]
  /\ pending' = pending \ {p}
  /\ UNCHANGED <<rateLimitMap, now, rateCalls, userModel, received, deleted, liveRoomModel, shutdown>>

\* --------------------------------------------------------------- AdminService
\* userIds an admin may name: the users and one that is not in the collection
Admins == {"a1", "a2"}
UserIds == Users \cup {"u0"}

\* banUser up to its await on updateOne: findOne and the two rejections
banUser(userId, bannedBy) ==
  /\ Cardinality(pending) < MaxPending
  /\ LET h == Handler("banUser", "update", bannedBy, [NoData EXCEPT !.userId = userId])
         error == CASE userId \notin DOMAIN userModel -> "NotFoundException"
                    [] userModel[userId].isBanned -> "BadRequestException"
                    [] OTHER -> ""
     IN  /\ h \notin pending
         /\ pending' = IF error = "" THEN pending \cup {h} ELSE pending
         /\ lastOp' = [op |-> "banUser", userId |-> userId, bannedBy |-> bannedBy,
                       outcome |-> IF error = "" THEN "found" ELSE error, emits |-> {}]
  /\ UNCHANGED <<bufVars, regVars, userModel, clients, received, deleted, liveRoomModel, shutdown>>

\* banUser from updateOne on: the ban is written, the session removed, the
\* events emitted
banResume(p) ==
  /\ p \in pending /\ p.event = "banUser"
  /\ LET userId == p.data.userId
         reg == IF SocketsOf(userSessions, userId) # {}
                THEN removeUserFromRoom(Registry, FirstSocketOf(userSessions, userId))
                ELSE Registry
         userSocketIds == SocketsOf(reg.userSessions, userId)
     IN  /\ userModel' = [userModel EXCEPT ![userId] =
                            [@ EXCEPT !.isBanned = TRUE, !.bannedBy = p.socketId]]
         /\ SetRegistry(reg)
         /\ lastOp' = [op |-> "banUser", userId |-> userId, bannedBy |-> p.socketId,
                       outcome |-> "banned",
                       held |-> SocketsOf(userSessions, userId),
                       rewritten |-> userModel[userId].isBanned,
                       emits |-> ToAll(clients, "admin:userBanned") \cup
                                 UNION {ToSocket(clients, c, "user:banned", "")
                                          : c \in userSocketIds}]
  /\ pending' = pending \ {p}
  /\ UNCHANGED <<roomMessageCounts, rateLimitMap, now, rateCalls>>
  /\ UNCHANGED <<bufVars, clients, received, deleted, liveRoomModel, shutdown>>

\* unbanUser up to its await on updateOne
unbanUser(userId, unbannedBy) ==
  /\ Cardinality(pending) < MaxPending
  /\ LET h == Handler("unbanUser", "update", unbannedBy, [NoData EXCEPT !.userId = userId])
         error == CASE userId \notin DOMAIN userModel -> "NotFoundException"
                    [] ~userModel[userId].isBanned -> "BadRequestException"
                    [] OTHER -> ""
     IN  /\ h \notin pending
         /\ pending' = IF error = "" THEN pending \cup {h} ELSE pending
         /\ lastOp' = [op |-> "unbanUser", userId |-> userId,
                       outcome |-> IF error = "" THEN "found" ELSE error, emits |-> {}]
  /\ UNCHANGED <<bufVars, regVars, userModel, clients, received, deleted, liveRoomModel, shutdown>>

\* unbanUser from updateOne on
unbanResume(p) ==
  /\ p \in pending /\ p.event = "unbanUser"
  /\ userModel' = [userModel EXCEPT ![p.data.userId] =
                     [@ EXCEPT !.isBanned = FALSE, !.bannedBy = "undefined"]]
  /\ lastOp' = [op |-> "unbanUser", userId |-> p.data.userId, outcome |-> "unbanned",
                emits |-> ToAll(clients, "admin:userUnbanned")]
  /\ pending' = pending \ {p}
  /\ UNCHANGED <<bufVars, regVars, clients, received, deleted, liveRoomModel, shutdown>>

\* MessageBufferService.deleteMessage(messageId, roomId): the message leaves the
\* room's recent list if it is there; the result tells whether it was
RECURSIVE Without(_, _)
Without(messages, messageId) ==
  IF messages = <<>> THEN <<>>
  ELSE IF Head(messages).id = messageId THEN Without(Tail(messages), messageId)
       ELSE <<Head(messages)>> \o Without(Tail(messages), messageId)
BufferDelete(messageId, roomId) ==
  IF roomId \in DOMAIN recentMessages
  THEN [recentMessages EXCEPT ![roomId] = Without(@, messageId)]
  ELSE recentMessages
BufferDeleted(messageId, roomId) == messageId \in Ids(RoomMessages(roomId))

\* insertMany is given the messages without their buffer id, so the store
\* assigns each document an _id of its own: the documents written for the
\* message with buffer id n carry the _id DocumentId(n), and MessageOf of a
\* messageId is the message it names in the buffer or in the store
DocumentId(n) == -n
MessageOf(messageId) == IF messageId < 0 THEN -messageId ELSE messageId
\* documents of the messages collection that deleteOne({_id, roomId}) matches
Matching(messageId, roomId) ==
  IF /\ messageId < 0
     /\ \E i \in 1..Len(added[roomId]) : DocumentId(added[roomId][i].id) = messageId
  THEN stored[MessageOf(messageId)] ELSE 0

\* AdminService.deleteMessage up to its await on deleteOne
deleteMessage(messageId, roomId, deletedBy) ==
  /\ Cardinality(pending) < MaxPending
  /\ LET h == Handler("deleteMessage", "deleteOne", deletedBy,
                      [messageId |-> messageId, roomId |-> roomId,
                       bufferDeleted |-> BufferDeleted(messageId, roomId)])
     IN  /\ h \notin pending
         /\ pending' = pending \cup {h}
  /\ recentMessages' = BufferDelete(messageId, roomId)
  /\ lastOp' = [op |-> "deleteMessage", messageId |-> messageId, roomId |-> roomId,
                outcome |-> "buffer", emits |-> {}]
  /\ UNCHANGED <<pendingWrites, inflight, stored, nextId, failures, added, dropped,
                 clearedAt, drain>>
  /\ UNCHANGED <<regVars, userModel, clients, received, deleted, liveRoomModel, shutdown>>

\* AdminService.deleteMessage after deleteOne
deleteResume(p) ==
  /\ p \in pending /\ p.event = "deleteMessage"
  /\ LET messageId == p.data.messageId
         deletedCount == Min(1, Matching(messageId, p.data.roomId))
         found == p.data.bufferDeleted \/ deletedCount # 0
     IN  /\ stored' = [stored EXCEPT ![MessageOf(messageId)] = @ - deletedCount]
         /\ deleted' = IF found THEN deleted \cup {MessageOf(messageId)} ELSE deleted
         /\ lastOp' = [op |-> "deleteMessage", messageId |-> messageId,
                       roomId |-> p.data.roomId,
                       outcome |-> IF found THEN "deleted" ELSE "NotFoundException",
                       bufferDeleted |-> p.data.bufferDeleted,
                       deletedCount |-> deletedCount, emits |-> {}]
  /\ pending' = pending \ {p}
  /\ UNCHANGED <<recentMessages, pendingWrites, inflight, nextId, failures, added,
                 dropped, clearedAt, drain>>
  /\ UNCHANGED <<regVars, userModel, clients, received, liveRoomModel, shutdown>>

\* ------------------------------------------------- authentication of sockets
\* JavaScript values of the handshake fields
Undefined == [type |-> "undefined"]
Str(s) == [type |-> "string", value |-> s]
\* a header string, given as the array that split(' ') makes of it, and a
\* Cookie header, given as the arrays that split(';') and split('=') make of it
Header(parts) == [type |-> "header", parts |-> parts]
CookieHeader(cookies) == [type |-> "cookies", parts |-> cookies]
Truthy(v) ==
  CASE v.type = "undefined" -> FALSE
    [] v.type = "array" -> TRUE
    [] v.type = "string" -> v.value # ""
    [] v.type = "header" -> v.parts # <<"">>
    [] v.type = "cookies" -> v.parts # << <<"">> >>

\* const [name, value] = cookie.trim().split('='): value is undefined when
\* there is no '=' and the text up to the next '=' otherwise
CookieValue(cookie) == IF Len(cookie) >= 2 THEN cookie[2] ELSE ""

\* the `for (const cookie of cookieArray)` loop from position i on
RECURSIVE CookieLoop(_, _)
CookieLoop(cookieArray, i) ==
  IF i > Len(cookieArray) THEN NULL
  ELSE IF cookieArray[i][1] = "access_token" /\ CookieValue(cookieArray[i]) # ""
       THEN Str(CookieValue(cookieArray[i]))
       ELSE CookieLoop(cookieArray, i + 1)

\* const [type, token] = authHeader.split(' '); type === 'Bearer' && token
BearerToken(authHeader) ==
  IF /\ Len(authHeader.parts) >= 2
     /\ authHeader.parts[1] = "Bearer"
     /\ authHeader.parts[2] # ""
  THEN Str(authHeader.parts[2]) ELSE NULL

\* WsAuthMiddleware.extractTokenFromSocket
MiddlewareExtractToken_CookieFirst(handshake) ==
  IF Truthy(handshake.query) /\ handshake.query.type = "string"
  THEN handshake.query
  ELSE IF Truthy(handshake.cookie) /\ CookieLoop(handshake.cookie.parts, 1) # NULL
       THEN CookieLoop(handshake.cookie.parts, 1)
       ELSE IF Truthy(handshake.authorization)
            THEN BearerToken(handshake.authorization)
            ELSE NULL
MiddlewareExtractToken(handshake) ==
  IF Truthy(handshake.query) /\ handshake.query.type = "string"
  THEN handshake.query
  ELSE IF Truthy(handshake.authorization)
            /\ BearerToken(handshake.authorization) # NULL
       THEN BearerToken(handshake.authorization)
       ELSE IF Truthy(handshake.cookie)
            THEN CookieLoop(handshake.cookie.parts, 1)
            ELSE NULL

\* WsJwtAuthGuard.extractTokenFromSocket
GuardExtractToken(handshake) ==
  LET queryToken == handshake.query
      authHeader == handshake.authorization
      cookies == handshake.cookie
  IN  CASE Truthy(queryToken) /\ queryToken.type = "string" -> queryToken
        [] OTHER ->
           LET fromHeader == IF Truthy(authHeader) THEN BearerToken(authHeader) ELSE NULL
           IN  IF fromHeader # NULL THEN fromHeader
               ELSE IF Truthy(cookies) THEN CookieLoop(cookies.parts, 1) ELSE NULL

\* handshakes a client can present
QueryValues == {Undefined, Str(""), Str("tq"), [type |-> "array"]}
HeaderValues ==
  {Undefined} \cup
  {Header(p) : p \in {<<"">>, <<"Bearer", "th">>, <<"Bearer">>, <<"bearer", "th">>,
                      <<"Bearer", "", "th">>, <<"Basic", "th">>}}
Cookies == {<<"access_token", "tc">>, <<"access_token", "">>, <<"access_token">>,
            <<"sid", "tc">>}
CookieValues ==
  {Undefined, CookieHeader(<< <<"">> >>)} \cup
  {CookieHeader(p) : p \in UNION {[1..n -> Cookies] : n \in 1..MaxCookies}}
Handshakes ==
  [query : QueryValues, authorization : HeaderValues, cookie : CookieValues]

\* a socket presents its handshake to the middleware and to the guard
extractTokenFromSocket(handshake) ==
  /\ lastOp' = [op |-> "extractTokenFromSocket", handshake |-> handshake,
                middleware |-> MiddlewareExtractToken(handshake),
                guard |-> GuardExtractToken(handshake)]
  /\ UNCHANGED <<bufVars, regVars, appVars>>

Init ==
  /\ recentMessages = <<>>
  /\ pendingWrites = <<>>
  /\ inflight = {}
  /\ stored = [i \in 1..MaxMsgs |-> 0]
  /\ nextId = 1
  /\ failures = 0
  /\ added = [r \in Rooms |-> <<>>]
  /\ dropped = {}
  /\ clearedAt = [r \in Rooms |-> 0]
  /\ drain = [P |-> 0, N |-> 0]
  /\ userSessions = <<>>
  /\ userRooms = <<>>
  /\ roomUsers = <<>>
  /\ roomMessageCounts = <<>>
  /\ typingUsers = <<>>
  /\ rateLimitMap = <<>>
  /\ now = 0
  /\ rateCalls = [c \in Sockets |-> <<>>]
  /\ userModel = [u \in Users |-> UserDocument]
  /\ clients = [c \in Sockets |-> NewSocket]
  /\ pending = {}
  /\ received = [c \in Sockets |-> {}]
  /\ deleted = {}
  /\ liveRoomModel = [r \in Rooms |-> 0]
  /\ shutdown = [pc |-> "running"]
  /\ lastOp = [op |-> "init"]

\* the recent cache under adds to every room, reads and successful flushes
Next ==
  \/ \E r \in Rooms : addMessage(r)
  \/ \E r \in Rooms, limit \in 1..MaxLimit : getRecent(r, limit)
  \/ periodicFlush
  \/ \E f \in inflight : flushSucceeds(f)

Spec == Init /\ [][Next]_vars

\* the write queue under adds, every flush trigger and failing batch inserts
\* (a failed insert stores nothing)
FlushRooms == {"r1"}
NextFlush ==
  \/ \E r \in FlushRooms : addMessage(r)
  \/ periodicFlush
  \/ forceFlush
  \/ \E f \in inflight : flushSucceeds(f)
  \/ \E f \in inflight : flushFails(f, {})

SpecFlush == Init /\ [][NextFlush]_vars

\* the same, where a failed unordered insert may have stored part of its batch
NextStore ==
  \/ \E r \in FlushRooms : addMessage(r)
  \/ periodicFlush
  \/ \E f \in inflight : flushSucceeds(f)
  \/ \E f \in inflight : \E written \in SUBSET Ids(f.batch) : flushFails(f, written)

SpecStore == Init /\ [][NextStore]_vars

\* the session registry under joins, leaves, disconnects, inactivity cleanup
\* and activity updates from every socket, as time passes
NextRegistry ==
  \/ \E c \in AllSockets, u \in Users, r \in Rooms : join(c, u, r)
  \/ \E c \in AllSockets : leave(c)
  \/ \E u \in Users : disconnectUser(u)
  \/ cleanupInactiveUsers(inactiveThreshold)
  \/ \E u \in Users : updateUserActivity(u)
  \/ tick

SpecRegistry == Init /\ [][NextRegistry]_vars

\* the inactivity cleanup while users of sessions type in any room, are
\* recorded as active, join again and leave, as time passes
NextCleanup ==
  \/ \E c \in Sockets, u \in Users, r \in Rooms : join(c, u, r)
  \/ \E c \in Sockets : leave(c)
  \/ \E r \in Rooms, u \in Users :
       /\ SocketsOf(userSessions, u) # {}
       /\ addTypingUser(r, u)
  \/ \E u \in Users : updateUserActivity(u)
  \/ cleanupInactiveUsers(inactiveThreshold)
  \/ tick

SpecCleanup == Init /\ [][NextCleanup]_vars

\* joins and leaves while typing sets, message counts and rate windows fill
\* (one rate-limited request per socket)
NextLeave ==
  \/ \E c \in Sockets, u \in Users, r \in Rooms : join(c, u, r)
  \/ \E c \in Sockets : leave(c)
  \/ \E r \in Rooms, u \in Users : addTypingUser(r, u)
  \/ \E r \in Rooms, u \in Users : removeTypingUser(r, u)
  \/ \E r \in Rooms : incrementMessageCount(r)
  \/ \E c \in Sockets :
       /\ rateCalls[c] = <<>>
       /\ checkRateLimit(c, rateLimitMaxRequests, rateLimitWindowMs)

SpecLeave == Init /\ [][NextLeave]_vars

\* the rate limiter under calls from every socket as time passes
NextRate ==
  \/ \E c \in Sockets : checkRateLimit(c, rateLimitMaxRequests, rateLimitWindowMs)
  \/ tick

SpecRate == Init /\ [][NextRate]_vars

\* token extraction over every handshake
NextToken == \E h \in Handshakes : extractTokenFromSocket(h)

SpecToken == Init /\ [][NextToken]_vars

\* shutdown of the buffer after adds and periodic flushes; every insertMany
\* completes, one way or the other
NextShutdown ==
  \/ \E r \in FlushRooms : shutdown.pc = "running" /\ addMessage(r)
  \/ shutdown.pc = "running" /\ periodicFlush
  \/ \E f \in inflight :
       (shutdown.pc = "await" => f # shutdown.flight) /\ flushSucceeds(f)
  \/ shutdownBegin
  \/ shutdownLoop
  \/ shutdownFlushSucceeds
  \/ shutdownFlushFails

SpecShutdown ==
  /\ Init /\ [][NextShutdown]_vars
  /\ WF_vars(shutdownLoop)
  /\ WF_vars(shutdownFlushSucceeds \/ shutdownFlushFails)

\* a socket has no handler suspended
Idle(c) == \A p \in pending : p.socketId # c

\* the send path: a socket connects, joins a room, types and sends every kind
\* of body, one frame at a time, while an admin bans its user and time passes
ChatRooms == {"r1"}
SendSockets == {"c1"}
SendUsers == {"u1"}
NextSend ==
  \/ \E c \in SendSockets, u \in SendUsers : wsConnect(c, u)
  \/ \E p \in pending : connectionResume(p)
  \/ \E c \in SendSockets, r \in ChatRooms :
       Idle(c) /\ clientEvent(c, "joinRoom", [NoData EXCEPT !.roomId = r])
  \/ \E c \in SendSockets, m \in Messages :
       Idle(c) /\ clientEvent(c, "sendMessage", [NoData EXCEPT !.message = m])
  \/ \E c \in SendSockets, r \in ChatRooms :
       Idle(c) /\ clientEvent(c, "typing", [NoData EXCEPT !.roomId = r, !.isTyping = TRUE])
  \/ \E p \in pending : guardResume(p)
  \/ \E p \in pending : joinResume(p)
  \/ \E p \in pending : sendResume(p)
  \/ \E u \in SendUsers : banUser(u, "a1")
  \/ \E p \in pending : banResume(p)
  \/ tick

SpecSend == Init /\ [][NextSend]_vars

\* the broadcast of a sent message: two users in one room, one of them sending
\* and typing, while every batch insert of the buffer fails
Listeners == {"c1", "c2"}
UserOf(c) == IF c = "c1" THEN "u1" ELSE "u2"
NextBroadcast ==
  \/ \E c \in Listeners : wsConnect(c, UserOf(c))
  \/ \E p \in pending : connectionResume(p)
  \/ \E c \in Listeners, r \in ChatRooms :
       pending = {} /\ clientEvent(c, "joinRoom", [NoData EXCEPT !.roomId = r])
  \/ \E c \in SendSockets, r \in ChatRooms :
       pending = {} /\ clientEvent(c, "typing", [NoData EXCEPT !.roomId = r, !.isTyping = TRUE])
  \/ \E c \in SendSockets :
       pending = {} /\ clientEvent(c, "sendMessage", [NoData EXCEPT !.message = <<"a">>])
  \/ \E p \in pending : guardResume(p)
  \/ \E p \in pending : joinResume(p)
  \/ \E p \in pending : sendResume(p)
  \/ \E f \in inflight : flushFails(f, {})
  \/ tick

SpecBroadcast == Init /\ [][NextBroadcast]_vars

\* moderation: the admins ban and unban every userId, concurrently, while a
\* user connects and holds a session
NextAdmin ==
  \/ \E c \in SendSockets, u \in SendUsers : wsConnect(c, u)
  \/ \E p \in pending : connectionResume(p)
  \/ \E c \in SendSockets, r \in ChatRooms :
       Idle(c) /\ clientEvent(c, "joinRoom", [NoData EXCEPT !.roomId = r])
  \/ \E p \in pending : guardResume(p)
  \/ \E p \in pending : joinResume(p)
  \/ \E u \in UserIds, a \in Admins : banUser(u, a)
  \/ \E p \in pending : banResume(p)
  \/ \E u \in UserIds, a \in Admins : unbanUser(u, a)
  \/ \E p \in pending : unbanResume(p)

SpecAdmin == Init /\ [][NextAdmin]_vars

\* connecting: the users collection holds active, inactive and banned users
\* when the server starts; a socket connects with every credential and sends
\* frames as soon as the transport is open, while handleConnection still
\* awaits the ban check
UserDocuments ==
  {UserDocument, [UserDocument EXCEPT !.isActive = FALSE],
   [UserDocument EXCEPT !.isBanned = TRUE, !.bannedBy = "a1"]}
InitConnect ==
  /\ recentMessages = <<>>
  /\ pendingWrites = <<>>
  /\ inflight = {}
  /\ stored = [i \in 1..MaxMsgs |-> 0]
  /\ nextId = 1
  /\ failures = 0
  /\ added = [r \in Rooms |-> <<>>]
  /\ dropped = {}
  /\ clearedAt = [r \in Rooms |-> 0]
  /\ drain = [P |-> 0, N |-> 0]
  /\ userSessions = <<>>
  /\ userRooms = <<>>
  /\ roomUsers = <<>>
  /\ roomMessageCounts = <<>>
  /\ typingUsers = <<>>
  /\ rateLimitMap = <<>>
  /\ now = 0
  /\ rateCalls = [c \in Sockets |-> <<>>]
  /\ userModel \in [Users -> UserDocuments]
  /\ clients = [c \in Sockets |-> NewSocket]
  /\ pending = {}
  /\ received = [c \in Sockets |-> {}]
  /\ deleted = {}
  /\ liveRoomModel = [r \in Rooms |-> 0]
  /\ shutdown = [pc |-> "running"]
  /\ lastOp = [op |-> "init"]
NoFrame(c) == \A p \in pending : p.socketId = c => p.event = "connection"
NextConnect ==
  \/ \E c \in SendSockets, credential \in Credentials : wsConnect(c, credential)
  \/ \E p \in pending : connectionResume(p)
  \/ \E c \in SendSockets, r \in ChatRooms :
       NoFrame(c) /\ clientEvent(c, "joinRoom", [NoData EXCEPT !.roomId = r])
  \/ \E c \in SendSockets :
       NoFrame(c) /\ clientEvent(c, "sendMessage", [NoData EXCEPT !.message = <<"a">>])
  \/ \E c \in SendSockets, r \in ChatRooms :
       NoFrame(c) /\ clientEvent(c, "typing", [NoData EXCEPT !.roomId = r, !.isTyping = TRUE])
  \/ \E p \in pending : guardResume(p)
  \/ \E p \in pending : joinResume(p)
  \/ \E p \in pending : sendResume(p)
  \/ \E c \in SendSockets : clientDisconnect(c)

SpecConnect == InitConnect /\ [][NextConnect]_vars

\* validation: a socket joins with and without a roomId and sends bodies that
\* are empty, blank, too long, or blank and too long, as time passes
JoinRoomIds == ChatRooms \cup {""}
LongMessages == {<<" ", " ", " ">>, <<"a", " ", " ">>}
NextValidate ==
  \/ \E c \in SendSockets, u \in SendUsers : wsConnect(c, u)
  \/ \E p \in pending : connectionResume(p)
  \/ \E c \in SendSockets, r \in JoinRoomIds :
       Idle(c) /\ clientEvent(c, "joinRoom", [NoData EXCEPT !.roomId = r])
  \/ \E c \in SendSockets, m \in Messages \cup LongMessages :
       Idle(c) /\ clientEvent(c, "sendMessage", [NoData EXCEPT !.message = m])
  \/ \E c \in SendSockets, r \in ChatRooms :
       Idle(c) /\ clientEvent(c, "typing", [NoData EXCEPT !.roomId = r, !.isTyping = TRUE])
  \/ \E p \in pending : guardResume(p)
  \/ \E p \in pending : joinResume(p)
  \/ \E p \in pending : sendResume(p)
  \/ tick

SpecValidate == Init /\ [][NextValidate]_vars

\* leaving: two users join rooms; one of them types, leaves with every roomId
\* and disconnects, the other stays
NextDepart ==
  \/ \E c \in Listeners : wsConnect(c, UserOf(c))
  \/ \E p \in pending : connectionResume(p)
  \/ \E c \in Listeners, r \in Rooms :
       pending = {} /\ clientEvent(c, "joinRoom", [NoData EXCEPT !.roomId = r])
  \/ \E c \in SendSockets, r \in Rooms :
       pending = {} /\ clientEvent(c, "leaveRoom", [NoData EXCEPT !.roomId = r])
  \/ \E c \in SendSockets, r \in Rooms :
       pending = {} /\ clientEvent(c, "typing", [NoData EXCEPT !.roomId = r, !.isTyping = TRUE])
  \/ \E p \in pending : guardResume(p)
  \/ \E p \in pending : joinResume(p)
  \/ \E c \in Listeners : clientDisconnect(c)

SpecDepart == Init /\ [][NextDepart]_vars

\* joining: two users join and change rooms while one of them sends, each
\* socket one frame at a time
NextJoin ==
  \/ \E c \in Listeners : wsConnect(c, UserOf(c))
  \/ \E p \in pending : connectionResume(p)
  \/ \E c \in Listeners, r \in Rooms :
       Idle(c) /\ clientEvent(c, "joinRoom", [NoData EXCEPT !.roomId = r])
  \/ \E c \in SendSockets :
       Idle(c) /\ clientEvent(c, "sendMessage", [NoData EXCEPT !.message = <<"a">>])
  \/ \E p \in pending : guardResume(p)
  \/ \E p \in pending : joinResume(p)
  \/ \E p \in pending : sendResume(p)
  \/ \E f \in inflight : flushSucceeds(f)

SpecJoin == Init /\ [][NextJoin]_vars

\* removal of a session while a send of its socket is in flight: two sockets
\* of one user join, the second evicting the first; the first sends (two
\* frames at most); the inactivity cleanup runs as time passes and an admin bans the user
RaceMessages == {<<" ">>, <<"a">>}
NextRace ==
  \/ \E c \in Listeners, u \in SendUsers : wsConnect(c, u)
  \/ \E p \in pending : connectionResume(p)
  \/ \E c \in Listeners, r \in ChatRooms :
       Idle(c) /\ clientEvent(c, "joinRoom", [NoData EXCEPT !.roomId = r])
  \/ \E c \in SendSockets, m \in RaceMessages :
       /\ Idle(c) /\ Len(rateCalls[c]) <= 1
       /\ clientEvent(c, "sendMessage", [NoData EXCEPT !.message = m])
  \/ \E p \in pending : guardResume(p)
  \/ \E p \in pending : joinResume(p)
  \/ \E p \in pending : sendResume(p)
  \/ cleanupInactiveUsers(inactiveThreshold)
  \/ \E u \in SendUsers : banUser(u, "a1")
  \/ \E p \in pending : banResume(p)
  \/ tick

SpecRace == Init /\ [][NextRace]_vars

\* a room ends while messages are added to it (and one to another room) and
\* are flushed: the flush timer keeps firing, a started insertMany completes,
\* and all but MaxFails of them succeed
NextPersist ==
  \/ \E r \in Rooms : (r \in FlushRooms \/ added[r] = <<>>) /\ addMessage(r)
  \/ periodicFlush
  \/ \E f \in inflight : flushSucceeds(f)
  \/ \E f \in inflight : flushFails(f, {})
  \/ \E r \in FlushRooms : clearRoomMessages(r)

SpecPersist ==
  /\ Init /\ [][NextPersist]_vars
  /\ WF_vars(periodicFlush)
  /\ WF_vars(\E f \in inflight : flushSucceeds(f))

\* deletion: an admin deletes messages, one at a time, by their buffer id or
\* by the _id of their document, while messages are added and flushed and
\* every insert succeeds
NextDelete ==
  \/ \E r \in FlushRooms : addMessage(r)
  \/ periodicFlush
  \/ \E f \in inflight : flushSucceeds(f)
  \/ \E n \in 1..MaxMsgs, r \in FlushRooms :
       \E messageId \in {n, DocumentId(n)} :
         n < nextId /\ pending = {} /\ deleteMessage(messageId, r, "a1")
  \/ \E p \in pending : deleteResume(p)

SpecDelete == Init /\ [][NextDelete]_vars

\* reads of the recent cache with every limit from 0 on
NextRecent ==
  \/ \E r \in Rooms : addMessage(r)
  \/ \E r \in Rooms, limit \in 0..MaxLimit : getRecent(r, limit)
  \/ \E f \in inflight : flushSucceeds(f)

SpecRecent == Init /\ [][NextRecent]_vars

\* ---------------------------------------------------------------- claims

\* what getRecentMessages is to return: the n newest messages added to the
\* room that are still cached, newest first
NewestFirst(roomId, limit) ==
  Reverse(LastN(added[roomId], Min(limit, Len(RoomMessages(roomId)))))

\* C1: for every sequence of addMessage calls and every limit N >= 1,
\* getRecentMessages(room, N) is the min(N, cached count) most recently added
\* messages of the room, newest first.
C1_GetRecentNewestFirst ==
  /\ \A r \in Rooms, n \in 1..MaxLimit : getRecentMessages(r, n) = NewestFirst(r, n)
  /\ lastOp.op = "getRecentMessages" =>
        lastOp.ret = NewestFirst(lastOp.roomId, lastOp.limit)

\* capacity 2, three messages sent to the room, a limit above the capacity:
\* the read returns the third and the second
C1_Witness ==
  /\ lastOp.op = "getRecentMessages"
  /\ lastOp.limit > MAX_RECENT_MESSAGES
  /\ Len(added[lastOp.roomId]) = MAX_RECENT_MESSAGES + 1
  /\ lastOp.ret = <<added[lastOp.roomId][3], added[lastOp.roomId][2]>>

\* C2: the recent cache of a room never holds more than MAX_RECENT_MESSAGES;
\* an addMessage keeps the newest messages of its room (the oldest are the
\* ones evicted) and leaves the cache of every other room unchanged.
C2_CacheBounded ==
  [][ /\ \A r \in DOMAIN recentMessages' :
           Len(recentMessages'[r]) <= MAX_RECENT_MESSAGES
      /\ lastOp'.op = "addMessage" =>
           LET r == lastOp'.roomId
               all == Append(RoomMessages(r), lastOp'.ret)
           IN  /\ recentMessages'[r] = LastN(all, Min(MAX_RECENT_MESSAGES, Len(all)))
               /\ \A o \in Rooms \ {r} :
                     /\ o \in DOMAIN recentMessages' <=> o \in DOMAIN recentMessages
                     /\ o \in DOMAIN recentMessages =>
                          recentMessages'[o] = recentMessages[o]
    ]_vars

\* an add has just evicted the oldest message of its room while another room
\* has messages cached
C2_Witness ==
  /\ lastOp.op = "addMessage"
  /\ Len(added[lastOp.roomId]) > MAX_RECENT_MESSAGES
  /\ Len(RoomMessages(lastOp.roomId)) = MAX_RECENT_MESSAGES
  /\ \E o \in Rooms \ {lastOp.roomId} : Len(RoomMessages(o)) > 0

\* C3: after a failed flush below the overflow ceiling the queue holds what
\* it held before that flush, in the same order, followed by the entries
\* added meanwhile.
C3_FailedFlushRestoresQueue ==
  (lastOp.op = "flushFails" /\ ~lastOp.overflow) =>
    pendingWrites =
      lastOp.flight.pre \o
        SelectSeq(pendingWrites, LAMBDA m : m.id >= lastOp.flight.startId)

\* C4: every message is written to durable storage at most once, whatever
\* flushes fail, partially or wholly, before one succeeds.
C4_StoredAtMostOnce == \A i \in DOMAIN stored : stored[i] <= 1

\* flush cycles needed for the queue length recorded at the last add or requeue
Cycles == (drain.P + BATCH_SIZE - 1) \div BATCH_SIZE
DrainCount ==
  /\ drain.N <= Cycles
  /\ Len(pendingWrites) = Max(0, drain.P - drain.N * BATCH_SIZE)
  /\ Len(pendingWrites) = 0 <=> drain.N = Cycles

\* C5: each flush removes exactly min(BATCH_SIZE, queue length) entries from
\* the head of the queue and submits them as one batch; without new adds and
\* failures, P pending messages are gone after exactly ceil(P / BATCH_SIZE)
\* flushes.
C5_FlushDrainsOneBatch ==
  [][ /\ Cardinality(inflight' \ inflight) <= 1
      /\ \A f \in inflight' \ inflight :
           LET n == Min(BATCH_SIZE, Len(f.pre))
           IN  /\ f.batch = SubSeq(f.pre, 1, n)
               /\ pendingWrites' = SubSeq(f.pre, n + 1, Len(f.pre))
      /\ DrainCount'
    ]_vars

\* BATCH_SIZE + 1 pending messages were drained in two flushes (2, then 1)
C5_Witness ==
  /\ drain.P = BATCH_SIZE + 1
  /\ drain.N = 2
  /\ Len(pendingWrites) = 0

\* C6: at most one flush is in flight at any time.
C6_SingleFlushInFlight == Cardinality(inflight) <= 1

\* C7: the write queue never holds more than 2 x EMERGENCY_FLUSH_SIZE entries.
C7_QueueBounded == Len(pendingWrites) <= 2 * EMERGENCY_FLUSH_SIZE

\* a failed flush has just left the queue at the ceiling
C7_Witness ==
  /\ lastOp.op = "flushFails"
  /\ Len(pendingWrites) = 2 * EMERGENCY_FLUSH_SIZE

\* C8: the registry holds at most one session per userId; once
\* join(c2, u) has completed, the only session of u is the one bound to c2 and
\* the socket that held u's session before has none.
C8_OneSessionPerUser ==
  /\ \A u \in Users : Cardinality(SocketsOf(userSessions, u)) <= 1
  /\ lastOp.op = "addUserToRoom" =>
       /\ SocketsOf(userSessions, lastOp.userId) = {lastOp.socketId}
       /\ userSessions[lastOp.socketId].roomId = lastOp.roomId
       /\ \A c \in lastOp.evicted \ {lastOp.socketId} : c \notin DOMAIN userSessions

\* a join has just evicted the session the user held on another socket,
\* while the other user is in a room as well
C8_Witness ==
  /\ lastOp.op = "addUserToRoom"
  /\ lastOp.evicted \ {lastOp.socketId} # {}
  /\ \E u \in Users \ {lastOp.userId} : SocketsOf(userSessions, u) # {}

\* C9: removeUserFromRoom on a socket without a session returns null and
\* changes none of sessions, user-to-room map, room membership, typing sets,
\* message counts and rate windows.
C9_LeaveWithoutSession ==
  [][ (lastOp'.op = "removeUserFromRoom" /\ lastOp'.socketId \notin DOMAIN userSessions)
        => /\ lastOp'.ret = NULL
           /\ UNCHANGED <<userSessions, userRooms, roomUsers, typingUsers,
                          roomMessageCounts, rateLimitMap>>
    ]_vars

\* a socket without a session has just left while another socket has a
\* session, someone is typing, and counts and rate windows are recorded
C9_Witness ==
  /\ lastOp.op = "removeUserFromRoom"
  /\ lastOp.ret = NULL
  /\ DOMAIN userSessions # {}
  /\ \E r \in DOMAIN typingUsers : typingUsers[r] # {}
  /\ DOMAIN roomMessageCounts # {}
  /\ DOMAIN rateLimitMap # {}

\* admitted earlier calls of the socket that a call at `now` counts
CountedOpen(socketId) ==
  {i \in 1..Len(rateCalls[socketId]) :
     /\ rateCalls[socketId][i].admitted
     /\ now - rateCalls[socketId][i].time < rateLimitWindowMs}
CountedClosed(socketId) ==
  {i \in 1..Len(rateCalls[socketId]) :
     /\ rateCalls[socketId][i].admitted
     /\ now - rateCalls[socketId][i].time <= rateLimitWindowMs}
OthersUntouched(socketId) ==
  \A o \in Sockets \ {socketId} :
    /\ rateCalls'[o] = rateCalls[o]
    /\ (o \in DOMAIN rateLimitMap') = (o \in DOMAIN rateLimitMap)
    /\ o \in DOMAIN rateLimitMap => rateLimitMap'[o] = rateLimitMap[o]

\* C10 as claimed: a call is admitted iff fewer than max earlier admitted calls
\* of the socket have timestamps in the closed interval [now - window, now].
C10_RateLimitClosedInterval ==
  [][ lastOp'.op = "checkRateLimit" =>
        /\ lastOp'.ret =
             (Cardinality(CountedClosed(lastOp'.socketId)) < rateLimitMaxRequests)
        /\ OthersUntouched(lastOp'.socketId)
    ]_vars

\* C10 as amended: a call is admitted iff fewer than max earlier admitted calls
\* of the socket have timestamps t with now - t < window, the half-open
\* interval (now - window, now]; the windows of other sockets are untouched.
C10_RateLimitHalfOpen ==
  [][ lastOp'.op = "checkRateLimit" =>
        /\ lastOp'.ret =
             (Cardinality(CountedOpen(lastOp'.socketId)) < rateLimitMaxRequests)
        /\ OthersUntouched(lastOp'.socketId)
    ]_vars

\* max calls admitted, the next one inside the window rejected, and the call
\* made once the window has elapsed admitted
C10_Witness ==
  /\ lastOp.op = "checkRateLimit"
  /\ lastOp.ret
  /\ LET calls == rateCalls[lastOp.socketId]
         n == rateLimitMaxRequests
     IN  /\ Len(calls) = n + 2
         /\ \A i \in 1..n : calls[i].admitted
         /\ ~calls[n + 1].admitted
         /\ calls[n + 1].time - calls[1].time < rateLimitWindowMs
         /\ calls[n + 2].admitted
         /\ calls[n + 2].time - calls[n].time >= rateLimitWindowMs

\* what each source of a handshake offers: a non-empty string `token` query
\* parameter, the token of an `Authorization: Bearer <token>` header, the
\* value of the first `access_token` cookie that has one
QuerySource(h) ==
  IF h.query.type = "string" /\ h.query.value # "" THEN {h.query.value} ELSE {}
HeaderSource(h) ==
  IF /\ h.authorization.type = "header"
     /\ Len(h.authorization.parts) >= 2
     /\ h.authorization.parts[1] = "Bearer"
     /\ h.authorization.parts[2] # ""
  THEN {h.authorization.parts[2]} ELSE {}
CookieSource(h) ==
  IF h.cookie.type = "cookies"
  THEN LET named == {i \in 1..Len(h.cookie.parts) :
                       /\ h.cookie.parts[i][1] = "access_token"
                       /\ Len(h.cookie.parts[i]) >= 2
                       /\ h.cookie.parts[i][2] # ""}
       IN  IF named = {} THEN {}
           ELSE {h.cookie.parts[CHOOSE i \in named : \A j \in named : i <= j][2]}
  ELSE {}
FirstSource(h) ==
  IF QuerySource(h) # {} THEN QuerySource(h)
  ELSE IF HeaderSource(h) # {} THEN HeaderSource(h)
  ELSE CookieSource(h)
TokenOf(ret) == IF ret = NULL THEN {} ELSE {ret.value}

\* C17: token extraction returns the token of the first source that has one,
\* in the order query parameter, Bearer header, access_token cookie, and none
\* only when no source has one; the middleware and the guard agree.
C17_TokenSourceOrder ==
  lastOp.op = "extractTokenFromSocket" =>
    /\ TokenOf(lastOp.middleware) = FirstSource(lastOp.handshake)
    /\ TokenOf(lastOp.guard) = FirstSource(lastOp.handshake)
    /\ lastOp.middleware = lastOp.guard

\* a handshake with a Bearer header and a cookie but no usable query
\* parameter has yielded the header's token
C17_Witness ==
  /\ lastOp.op = "extractTokenFromSocket"
  /\ QuerySource(lastOp.handshake) = {}
  /\ HeaderSource(lastOp.handshake) = {"th"}
  /\ CookieSource(lastOp.handshake) = {"tc"}
  /\ lastOp.middleware = Str("th")

\* C18: once shutdown has begun it finishes, whatever the batch inserts do.
C18_ShutdownTerminates ==
  (shutdown.pc = "loop") ~> (shutdown.pc = "done")

\* a step that ends the handling of a send frame, and the frame's socket
SendEnds == lastOp'.op = "sendMessage" /\ lastOp'.outcome # "admitted"
NothingBuffered == UNCHANGED <<recentMessages, pendingWrites, inflight, nextId>>
NoBroadcast == \A f \in lastOp'.emits : f.event # "newMessage"
BanEnforced(c) ==
  /\ lastOp'.outcome = "banned"
  /\ Frame(c, "user:banned", "USER_BANNED") \in lastOp'.emits
  /\ clients'[c].state = "closed"
  /\ c \notin DOMAIN userSessions'
  /\ NothingBuffered
  /\ NoBroadcast

\* C11 as claimed: a send frame that arrives while its user's ban is in force
\* ends with the ban notice to that socket, the socket closed and without a
\* session, nothing added to the cache or the queue and no newMessage.
C11_NextSendAfterBan ==
  [][ (SendEnds /\ lastOp'.handler.data.banned) => BanEnforced(lastOp'.socketId) ]_vars

\* C11 as amended: the same for a send frame that the rate limit admits.
C11_AdmittedSendAfterBan ==
  [][ (SendEnds /\ lastOp'.handler.data.banned /\ lastOp'.outcome # "rate limited")
        => BanEnforced(lastOp'.socketId) ]_vars

\* a user banned after joining has joined again and sent a message: the send
\* ended with the ban notice and took the session away
C11_Witness ==
  /\ lastOp.op = "sendMessage"
  /\ lastOp.outcome = "banned"
  /\ lastOp.handler.data.banned
  /\ lastOp.handler.data.message = <<"a">>
  /\ lastOp.hadSession
  /\ clients[lastOp.socketId].state = "closed"

\* the checks of a send in their order, on the state before the step
RateLimited(c) == Cardinality(CountedOpen(c)) >= rateLimitMaxRequests
Banned(c) == userModel[clients[c].user].isBanned
NoSession(c) == c \notin DOMAIN userSessions
Mismatch(c) == userSessions[c].userId # clients[c].user
Blank(message) == \A i \in 1..Len(message) : message[i] = " "
Oversize(message) == Len(message) > MAX_MESSAGE_LENGTH

\* C12: a send is decided by the first failing check in the order rate limit,
\* ban, session, identity, content: a rate-limited send yields only the
\* rate-limit error and leaves the socket open whatever the ban state; a send
\* without a session yields SESSION_NOT_FOUND whatever its content.
C12_SendCheckOrder ==
  [][ lastOp'.op = "sendMessage" /\ lastOp'.outcome # "unauthorized" =>
        LET c == lastOp'.socketId
            message == lastOp'.handler.data.message
        IN  IF lastOp'.handler.pc = "guard"
            THEN /\ (lastOp'.outcome = "rate limited") = RateLimited(c)
                 /\ RateLimited(c) =>
                      /\ lastOp'.emits = {Frame(c, "error", "Rate limit exceeded")}
                      /\ clients'[c].state = "open"
            ELSE /\ (lastOp'.outcome = "banned") = Banned(c)
                 /\ (lastOp'.outcome = "SESSION_NOT_FOUND") = (~Banned(c) /\ NoSession(c))
                 /\ ~Banned(c) /\ ~NoSession(c) =>
                      /\ (lastOp'.outcome = "AUTH_MISMATCH") = Mismatch(c)
                      /\ ~Mismatch(c) =>
                           /\ (lastOp'.outcome = "ignored") = Blank(message)
                           /\ (lastOp'.outcome = "too long") =
                                (~Blank(message) /\ Oversize(message))
    ]_vars

\* an oversize send from a socket without a session has been answered with
\* SESSION_NOT_FOUND
C12_Witness ==
  /\ lastOp.op = "sendMessage"
  /\ lastOp.outcome = "SESSION_NOT_FOUND"
  /\ Len(lastOp.handler.data.message) > MAX_MESSAGE_LENGTH
  /\ \E i \in 1..Len(rateCalls[lastOp.socketId]) : ~rateCalls[lastOp.socketId][i].admitted

\* a step of the handling of a send frame from a socket that is not banned
\* and has no session
SessionlessSend ==
  /\ lastOp'.op = "sendMessage"
  /\ lastOp'.outcome # "unauthorized"
  /\ ~Banned(lastOp'.socketId)
  /\ NoSession(lastOp'.socketId)
RegistryUntouched ==
  UNCHANGED <<userSessions, userRooms, roomUsers, typingUsers, roomMessageCounts>>
BufferUntouched == UNCHANGED <<recentMessages, pendingWrites>>

\* C19 as claimed: a send from a non-banned socket without a session ends with
\* the SESSION_NOT_FOUND error and changes nothing, rate windows included.
C19_SessionlessSendMutatesNothing ==
  [][ SessionlessSend =>
        /\ RegistryUntouched /\ BufferUntouched /\ UNCHANGED rateLimitMap
        /\ lastOp'.outcome \in {"admitted", "SESSION_NOT_FOUND"}
    ]_vars

\* C19 as amended: such a send, once the rate limit has admitted it, ends with
\* the SESSION_NOT_FOUND error to the sender and changes nothing but the
\* sender's rate window, which records the call.
C19_SessionlessSendRecordsCall ==
  [][ SessionlessSend /\ lastOp'.outcome # "rate limited" =>
        LET c == lastOp'.socketId
        IN  /\ RegistryUntouched /\ BufferUntouched /\ UNCHANGED clients
            /\ IF lastOp'.handler.pc = "guard"
               THEN /\ lastOp'.outcome = "admitted"
                    /\ rateLimitMap'[c] = Append(RecentRequests(Requests(c), rateLimitWindowMs), now)
                    /\ \A o \in DOMAIN rateLimitMap \ {c} : rateLimitMap'[o] = rateLimitMap[o]
               ELSE /\ lastOp'.outcome = "SESSION_NOT_FOUND"
                    /\ lastOp'.emits = {Frame(c, "error", "SESSION_NOT_FOUND")}
                    /\ UNCHANGED rateLimitMap
    ]_vars

\* a socket that never joined has sent a message and got SESSION_NOT_FOUND
C19_Witness ==
  /\ lastOp.op = "sendMessage"
  /\ lastOp.outcome = "SESSION_NOT_FOUND"
  /\ lastOp.handler.data.message = <<"a">>
  /\ lastOp.socketId \in DOMAIN rateLimitMap
  /\ ~userModel[clients[lastOp.socketId].user].isBanned

\* C20: a send that the rate limit rejects yields one error frame to the
\* sender only, adds nothing to the cache or the queue, and leaves the socket
\* open with its session, membership and typing state; a send made once fewer
\* than max admitted calls remain in the window is admitted.
C20_RateLimitedSend ==
  [][ lastOp'.op = "sendMessage" /\ lastOp'.handler.pc = "guard"
        /\ lastOp'.outcome # "unauthorized" =>
        LET c == lastOp'.socketId
        IN  IF RateLimited(c)
            THEN /\ lastOp'.outcome = "rate limited"
                 /\ lastOp'.emits = {Frame(c, "error", "Rate limit exceeded")}
                 /\ RegistryUntouched /\ NothingBuffered
                 /\ UNCHANGED clients
                 /\ pending' = pending \ {lastOp'.handler}
            ELSE lastOp'.outcome = "admitted"
    ]_vars

\* a socket with a session, typing, was rate limited, and its send after the
\* window elapsed has been accepted and broadcast
C20_Witness ==
  /\ lastOp.op = "sendMessage"
  /\ lastOp.outcome = "sent"
  /\ LET calls == rateCalls[lastOp.socketId]
     IN  /\ Len(calls) = rateLimitMaxRequests + 2
         /\ ~calls[rateLimitMaxRequests + 1].admitted
         /\ calls[rateLimitMaxRequests + 2].admitted

\* the sockets that socket.io has in a room, and the copies of a message held
\* by the write queue and by the batches submitted in this step
InRoom(roomId) == {x \in Sockets : Open(clients, x) /\ roomId \in clients[x].rooms}
Copies(s, id) == Cardinality({i \in 1..Len(s) : s[i].id = id})
Submitted(id) == {f \in inflight' \ inflight : id \in Ids(f.batch)}

\* C13: a send that passes all checks adds one message to the sender's session
\* room in the recent cache and one to the write queue (or to the batch an
\* emergency flush submits), sets the sender's lastActivity, adds one to the
\* room's message count, takes the sender out of the room's typing set and emits
\* one newMessage to every socket of the room, the sender included, in the
\* same step, whatever inserts are in flight or have failed; a failed insert
\* emits nothing to any client.
C13_SendBroadcasts ==
  [][ /\ lastOp'.op = "sendMessage" /\ lastOp'.outcome = "sent" =>
          LET c == lastOp'.socketId
              roomId == userSessions[c].roomId
              userId == clients[c].user
              message == [id |-> nextId, roomId |-> roomId]
              count == IF roomId \in DOMAIN roomMessageCounts
                       THEN roomMessageCounts[roomId] ELSE 0
          IN  /\ added' = [added EXCEPT ![roomId] = Append(@, message)]
              /\ recentMessages'[roomId][Len(recentMessages'[roomId])] = message
              /\ Ids(recentMessages'[roomId]) \subseteq Ids(RoomMessages(roomId)) \cup {nextId}
              /\ Copies(recentMessages'[roomId], nextId) = 1
              /\ \A r \in DOMAIN recentMessages \ {roomId} :
                   recentMessages'[r] = recentMessages[r]
              /\ Copies(pendingWrites', nextId) + Cardinality(Submitted(nextId)) = 1
              /\ \A f \in Submitted(nextId) : Copies(f.batch, nextId) = 1
              /\ Len(pendingWrites') + Len(MessagesToWrite(Append(pendingWrites, message)))
                    * Cardinality(inflight' \ inflight)
                 = Len(pendingWrites) + 1
              /\ userSessions'[c].lastActivity = now
              /\ userSessions'[c].roomId = roomId
              /\ roomMessageCounts' = MapSet(roomMessageCounts, roomId, count + 1)
              /\ roomId \in DOMAIN typingUsers' => userId \notin typingUsers'[roomId]
              /\ lastOp'.emits = {Frame(x, "newMessage", "") : x \in InRoom(roomId)}
              /\ c \in InRoom(roomId)
              /\ \A x \in DOMAIN userSessions :
                   Open(clients, x) /\ userSessions[x].roomId = roomId => x \in InRoom(roomId)
              /\ UNCHANGED <<clients, stored, failures>>
      /\ lastOp'.op = "flushFails" =>
          /\ "emits" \notin DOMAIN lastOp'
          /\ UNCHANGED <<clients, received, deleted, pending>>
    ]_vars

\* after two failed inserts, with a batch in flight, a typing sender's message
\* has been broadcast to the sender and to the other user of the room
C13_Witness ==
  /\ lastOp.op = "sendMessage"
  /\ lastOp.outcome = "sent"
  /\ failures = MaxFails
  /\ inflight # {}
  /\ \A i \in DOMAIN stored : stored[i] = 0
  /\ lastOp.handler.data.banned = FALSE
  /\ {f.to : f \in lastOp.emits} = Listeners
  /\ "r1" \in DOMAIN typingUsers /\ typingUsers["r1"] = {}
  /\ now > 0

\* C14: banUser of a known, not yet banned user with a live session writes the
\* ban, removes the user's session, emits admin:userBanned to every socket,
\* and emits user:banned to every open socket that held a session of the user
\* when the ban was written.
C14_BanNotifiesSessionHolders ==
  [][ lastOp'.op = "banUser" /\ lastOp'.outcome = "banned"
        /\ ~lastOp'.rewritten /\ lastOp'.held # {} =>
        LET userId == lastOp'.userId
        IN  /\ userModel'[userId].isBanned
            /\ SocketsOf(userSessions', userId) = {}
            /\ ToAll(clients, "admin:userBanned") \subseteq lastOp'.emits
            /\ \A c \in lastOp'.held :
                 Open(clients, c) => Frame(c, "user:banned", "") \in lastOp'.emits
    ]_vars

\* C15: a step of banUser taken while the user is unknown or already banned is
\* a rejection with an exception and changes nothing: the ban fields are not
\* written again, no session is removed and nothing is emitted; of two
\* concurrent requests for one user at most one bans.
Rejections == {"NotFoundException", "BadRequestException"}
C15_BanRejectedWhenBanned ==
  [][ lastOp'.op = "banUser" =>
        LET userId == lastOp'.userId
        IN  /\ lastOp'.outcome \in Rejections =>
                 /\ UNCHANGED <<userModel, clients, received, deleted, pending>>
                 /\ RegistryUntouched
                 /\ lastOp'.emits = {}
            /\ userId \notin DOMAIN userModel \/ userModel[userId].isBanned =>
                 /\ lastOp'.outcome \in Rejections
                 /\ UNCHANGED userModel
                 /\ RegistryUntouched
                 /\ lastOp'.emits = {}
    ]_vars

\* a socket that the middleware rejected (it has no user) or whose user was
\* banned when it connected
Refused(c) ==
  /\ clients'[c].state # "new"
  /\ IF clients'[c].user = "undefined" THEN TRUE ELSE userModel[clients'[c].user].isBanned

\* C16: a socket with a missing or invalid token, an inactive user or a user
\* banned at connect time is closed with an error frame, never receives
\* 'connected', never has a session, and its joinRoom, sendMessage and typing
\* frames change neither the registry nor the buffer and reach no other socket.
C16_RefusedConnectionHasNoEffect ==
  [][ \A c \in Sockets : Refused(c) =>
        /\ "connected" \notin received'[c]
        /\ c \notin DOMAIN userSessions'
        /\ lastOp'.op = "connect" /\ lastOp'.socketId = c /\ lastOp'.outcome = "rejected" =>
             /\ clients'[c].state = "closed"
             /\ \E f \in lastOp'.emits : f.to = c /\ f.event = "connect_error"
        /\ lastOp'.op = "handleConnection" /\ lastOp'.socketId = c =>
             /\ lastOp'.outcome = "banned"
             /\ clients'[c].state = "closed"
             /\ Open(clients, c) => Frame(c, "error", "USER_BANNED") \in lastOp'.emits
        /\ lastOp'.op \in Events /\ lastOp'.socketId = c =>
             /\ RegistryUntouched /\ BufferUntouched
             /\ \A f \in lastOp'.emits : f.to = c
    ]_vars

\* a step of a handler whose frame fails validation: a join without roomId, or
\* a send with a session whose body is blank or too long
InvalidJoin == lastOp'.op = "joinRoom" /\ lastOp'.handler.data.roomId = ""
InvalidSend ==
  /\ lastOp'.op = "sendMessage"
  /\ lastOp'.outcome \notin {"unauthorized", "rate limited"}
  /\ lastOp'.socketId \in DOMAIN userSessions
  /\ Blank(lastOp'.handler.data.message) \/ Oversize(lastOp'.handler.data.message)
SessionsKept == RegistryUntouched /\ NothingBuffered /\ UNCHANGED <<clients, received, deleted>>

\* C21 as claimed: a join without roomId yields an error and no session, a send
\* with a body over the length bound yields an error, a send with an empty or
\* blank body yields nothing, and in each case no state changes, the socket
\* stays open and its session is as before.
C21_ValidationChangesNothing ==
  [][ /\ InvalidJoin =>
           /\ lastOp'.emits = {Frame(lastOp'.socketId, "error", "Invalid room data")}
           /\ SessionsKept /\ UNCHANGED rateLimitMap
      /\ InvalidSend =>
           LET c == lastOp'.socketId
               message == lastOp'.handler.data.message
           IN  /\ SessionsKept /\ UNCHANGED rateLimitMap
               /\ clients'[c].state = "open"
               /\ lastOp'.handler.pc = "ban" =>
                    /\ Oversize(message) =>
                         lastOp'.emits = {Frame(c, "error", "too long")}
                    /\ Blank(message) /\ ~Oversize(message) => lastOp'.emits = {}
    ]_vars

\* C21 as amended: the same, where a body that is blank is ignored whatever
\* its length, and the send has been recorded in the sender's rate window
\* before its body is validated.
C21_ValidationKeepsSessions ==
  [][ /\ InvalidJoin =>
           /\ lastOp'.outcome = "invalid"
           /\ lastOp'.emits = {Frame(lastOp'.socketId, "error", "Invalid room data")}
           /\ SessionsKept /\ UNCHANGED rateLimitMap
           /\ clients'[lastOp'.socketId].state = "open"
      /\ InvalidSend =>
           LET c == lastOp'.socketId
               message == lastOp'.handler.data.message
           IN  /\ SessionsKept
               /\ clients'[c].state = "open"
               /\ userSessions'[c] = userSessions[c]
               /\ IF lastOp'.handler.pc = "guard"
                  THEN /\ lastOp'.emits = {}
                       /\ rateLimitMap'[c] =
                            Append(RecentRequests(Requests(c), rateLimitWindowMs), now)
                  ELSE /\ UNCHANGED rateLimitMap
                       /\ Blank(message) =>
                            lastOp'.outcome = "ignored" /\ lastOp'.emits = {}
                       /\ ~Blank(message) =>
                            /\ lastOp'.outcome = "too long"
                            /\ lastOp'.emits = {Frame(c, "error", "too long")}
    ]_vars

\* a socket with a session has sent a body that is blank and too long, and
\* nothing was emitted
C21_Witness ==
  /\ lastOp.op = "sendMessage"
  /\ lastOp.outcome = "ignored"
  /\ lastOp.handler.data.message = <<" ", " ", " ">>
  /\ lastOp.socketId \in DOMAIN userSessions
  /\ clients[lastOp.socketId].state = "open"

\* a socket that holds a session leaves or closes
Departure ==
  /\ \/ lastOp'.op = "handleDisconnect"
     \/ lastOp'.op = "leaveRoom" /\ lastOp'.outcome # "unauthorized"
  /\ lastOp'.socketId \in DOMAIN userSessions
Remaining(c, roomId) ==
  {x \in Sockets \ {c} : Open(clients', x) /\ roomId \in clients'[x].rooms}

\* C22: when a socket with a session in room r leaves or closes, the session
\* is removed, the user is out of r's typing set, the socket is out of r's
\* broadcast group, and userLeft with r's member count after the removal goes
\* to the sockets that remain in r, whatever roomId the leave frame carries.
C22_DepartureNotifiesSessionRoom ==
  [][ Departure =>
        LET c == lastOp'.socketId
            r == userSessions[c].roomId
            userId == userSessions[c].userId
        IN  /\ c \notin DOMAIN userSessions'
            /\ r \in DOMAIN typingUsers' => userId \notin typingUsers'[r]
            /\ r \notin clients'[c].rooms
            /\ lastOp'.emits =
                 Counted({Frame(x, "userLeft", "") : x \in Remaining(c, r)},
                         getRoomUserCount(roomUsers', r))
    ]_vars

\* the users with a session in a room, and the other sockets of its group
UsersIn(roomId) ==
  {userSessions[x].userId : x \in {y \in DOMAIN userSessions : userSessions[y].roomId = roomId}}
OthersIn(c, roomId) ==
  {x \in Sockets \ {c} : Open(clients, x) /\ roomId \in clients[x].rooms}
OldestFirst(messages) ==
  \A i, j \in 1..Len(messages) : i < j => messages[i].id < messages[j].id

C24_ClosedSocketHasNoSession ==
  [][ \A c \in Sockets :
        /\ clients'[c].state = "closed" => c \notin DOMAIN userSessions'
        /\ clients[c].state = "closed" /\ lastOp'.op \in Events /\ lastOp'.socketId = c =>
             RegistryUntouched /\ BufferUntouched
    ]_vars

\* C25: once deleteMessage has succeeded for a message, the message is in no
\* recent list and not in the store, and no later flush stores it; the
\* operation reports not-found only when the message was neither in the
\* recent list of the room nor in the store.
C25_DeletedStaysDeleted ==
  /\ \A id \in deleted :
       /\ \A r \in DOMAIN recentMessages : id \notin Ids(recentMessages[r])
       /\ stored[id] = 0
  /\ lastOp.op = "deleteMessage" /\ lastOp.outcome = "NotFoundException" =>
       ~lastOp.bufferDeleted /\ lastOp.deletedCount = 0

\* C26: a failed flush puts its batch back at the head of the queue; when the
\* queue is then longer than 2 x EMERGENCY_FLUSH_SIZE only the oldest entries
\* in excess are dropped, which leaves the newest 2 x EMERGENCY_FLUSH_SIZE in
\* their order; otherwise nothing is dropped.
C26_OverflowDropsExcessOnly ==
  [][ lastOp'.op = "flushFails" =>
        LET queue == lastOp'.flight.batch \o pendingWrites
            ceiling == 2 * EMERGENCY_FLUSH_SIZE
        IN  IF Len(queue) > ceiling
            THEN pendingWrites' = LastN(queue, ceiling)
            ELSE pendingWrites' = queue
    ]_vars

\* C27: for every limit >= 0, getRecentMessages(roomId, limit) returns at most
\* limit messages, none for limit 0, and leaves the recent cache as it was.
C27_GetRecentAtMostLimit ==
  [][ lastOp'.op = "getRecentMessages" =>
        /\ Len(lastOp'.ret) <= lastOp'.limit
        /\ UNCHANGED recentMessages
    ]_vars

\* the flush that the forceFlush just called awaits has completed
ForceFlushCompletes ==
  /\ "caller" \in DOMAIN lastOp /\ lastOp.pre # <<>>
  /\ lastOp'.op = "flushSucceeds"
  /\ lastOp'.flight.pre = lastOp.pre /\ lastOp'.flight.startId = lastOp.startId

\* C28: when forceFlush is called with P messages pending and its insert is
\* accepted, then at its completion the queue is empty and all P messages are
\* in the store.
C28_ForceFlushDrainsQueue ==
  [][ ForceFlushCompletes =>
        /\ pendingWrites' = <<>>
        /\ \A id \in Ids(lastOp.pre) : stored'[id] >= 1
    ]_vars

Stale == {c \in DOMAIN userSessions : now - userSessions[c].lastActivity > inactiveThreshold}
StaleIn(roomId) == {userSessions[c].userId : c \in {x \in Stale : userSessions[x].roomId = roomId}}
C30_CleanupRemovesExactlyStale ==
  [][ /\ lastOp'.op = "cleanupInactiveUsers" =>
          /\ DOMAIN userSessions' = DOMAIN userSessions \ Stale
          /\ \A c \in DOMAIN userSessions' : userSessions'[c] = userSessions[c]
          /\ DOMAIN userRooms' = DOMAIN userRooms \ {userSessions[c].userId : c \in Stale}
          /\ \A u \in DOMAIN userRooms' : userRooms'[u] = userRooms[u]
          /\ DOMAIN roomUsers' = DOMAIN roomUsers
          /\ \A r \in DOMAIN roomUsers : roomUsers'[r] = roomUsers[r] \ StaleIn(r)
          /\ DOMAIN typingUsers' = DOMAIN typingUsers
          /\ \A r \in DOMAIN typingUsers : typingUsers'[r] = typingUsers[r] \ StaleIn(r)
      /\ lastOp'.op = "updateUserActivity" =>
          \A c \in SocketsOf(userSessions, lastOp'.userId) :
            /\ c \in DOMAIN userSessions'
            /\ userSessions'[c].lastActivity = now'
    ]_vars
\* a cleanup has run that evicted one session, with its typing entry, and kept
\* another whose activity was exactly the threshold ago
C30_Witness ==
  /\ lastOp.op = "cleanupInactiveUsers"
  /\ \E c \in DOMAIN userSessions : now - userSessions[c].lastActivity = inactiveThreshold
  /\ \E u \in Users : u \notin DOMAIN userRooms
  /\ \E r \in DOMAIN typingUsers : typingUsers[r] # {}

\* C31: a send adds its message to the buffer and broadcasts it only when its
\* connection holds a session at that moment, and the session is still there
\* afterwards; a send whose session was removed while it was in flight (by the
\* inactivity cleanup, by another join of the same user or by an admin ban)
\* adds and broadcasts nothing and is answered SESSION_NOT_FOUND, or with the
\* ban notice when the user is banned
SendStep == lastOp'.op = "sendMessage" /\ "hadSession" \in DOMAIN lastOp'
C31_SendNeedsSession ==
  [][ /\ nextId' # nextId =>
          /\ SendStep
          /\ lastOp'.socketId \in DOMAIN userSessions
          /\ lastOp'.socketId \in DOMAIN userSessions'
          /\ \A f \in lastOp'.emits :
               f.event = "newMessage" /\
               userSessions[lastOp'.socketId].roomId \in clients[f.to].rooms
      /\ SendStep /\ lastOp'.socketId \notin DOMAIN userSessions =>
          /\ UNCHANGED bufVars
          /\ lastOp'.outcome \in {"SESSION_NOT_FOUND", "banned"}
          /\ \A f \in lastOp'.emits : f.event # "newMessage"
    ]_vars
\* a send of a socket that sent a message earlier has just been refused for
\* lack of a session: the session was removed in between, and not by a ban
C31_Witness ==
  /\ lastOp.op = "sendMessage" /\ "hadSession" \in DOMAIN lastOp
  /\ lastOp.outcome = "SESSION_NOT_FOUND"
  /\ ~userModel["u1"].isBanned
  /\ nextId > 1

\* C32: a step of unbanUser taken while the user is unknown or not banned is a
\* rejection with an exception that changes nothing and emits nothing;
\* otherwise the step that completes the unban clears the ban fields and
\* broadcasts admin:userUnbanned, and the ban check then answers "not banned"
C32_UnbanMirrorsBan ==
  [][ lastOp'.op = "unbanUser" =>
        LET userId == lastOp'.userId
        IN  /\ lastOp'.outcome \in Rejections =>
                 /\ UNCHANGED <<userModel, clients, received, deleted, pending>>
                 /\ RegistryUntouched
                 /\ lastOp'.emits = {}
            /\ userId \notin DOMAIN userModel \/ ~userModel[userId].isBanned =>
                 /\ lastOp'.outcome \in Rejections
                 /\ UNCHANGED userModel
                 /\ lastOp'.emits = {}
            /\ lastOp'.outcome = "unbanned" =>
                 /\ userModel'[userId] = UserDocument
                 /\ lastOp'.emits = ToAll(clients, "admin:userUnbanned")
                 /\ RegistryUntouched
    ]_vars

\* C33: in every state the membership set of each room is the set of userIds
\* of the sessions in that room, and the user-to-room map holds u -> r exactly
\* when a session of u in r exists
SessionsIn(roomId) == {c \in DOMAIN userSessions : userSessions[c].roomId = roomId}
MembersOf(roomId) == IF roomId \in DOMAIN roomUsers THEN roomUsers[roomId] ELSE {}
C33_MembershipIsDerived ==
  /\ \A r \in Rooms : MembersOf(r) = {userSessions[c].userId : c \in SessionsIn(r)}
  /\ \A u \in Users, r \in Rooms :
       (u \in DOMAIN userRooms /\ userRooms[u] = r)
         <=> \E c \in SessionsIn(r) : userSessions[c].userId = u

\* C34: in every state every userId in the typing set of a room has a session
\* in that room
C34_TypingHasSessionInRoom ==
  \A r \in DOMAIN typingUsers : \A u \in typingUsers[r] :
    \E c \in SessionsIn(r) : userSessions[c].userId = u

\* C35: whenever no handler is in progress, a socket is in the broadcast group
\* of room r exactly when it holds a session in r (so it is in the group of
\* one room at most)
C35_GroupMatchesRegistry ==
  pending = {} =>
    \A c \in Sockets, r \in Rooms :
      r \in clients[c].rooms <=> (c \in DOMAIN userSessions /\ userSessions[c].roomId = r)

\* C36: while a user is banned (banUser has completed and unbanUser has not),
\* no session of the user exists, the user is a member of no room and is in
\* no typing set
C36_BannedUserHasNoSession ==
  \A u \in Users : userModel[u].isBanned =>
    /\ SocketsOf(userSessions, u) = {}
    /\ \A r \in DOMAIN roomUsers : u \notin roomUsers[r]
    /\ \A r \in DOMAIN typingUsers : u \notin typingUsers[r]

\* C37: whenever no handler is in progress, the viewer count persisted for
\* each room is the number of members the registry holds for it
C37_ViewerCountIsMemberCount ==
  pending = {} =>
    \A r \in Rooms : liveRoomModel[r] = getRoomUserCount(roomUsers, r)

\* C38: with the flush timer firing and batch inserts eventually succeeding,
\* every message that addMessage accepted is eventually in the store or was
\* dropped by the overflow policy, and the write queue eventually is and stays
\* empty
C38_EventualPersistence ==
  /\ \A n \in 1..MaxMsgs : (n < nextId) ~> (stored[n] > 0 \/ n \in dropped)
  /\ <>[](pendingWrites = <<>> /\ inflight = {})

\* C39: in every state the write queue is ordered by creation: of two queued
\* messages the one created earlier is nearer the head
C39_QueueOrderedByCreation ==
  \A i, j \in 1..Len(pendingWrites) :
    i < j => pendingWrites[i].id < pendingWrites[j].id

\* C40: a step of clearRoomMessages(r) leaves the recent cache of r empty and
\* no message of r in the write queue, and changes neither the cache nor the
\* queued messages of the other rooms; and no message of r created before the
\* clear is in the write queue at any later time
QueuedOf(queue, roomId) == SelectSeq(queue, LAMBDA msg : msg.roomId = roomId)
C40_ClearedStaysCleared ==
  [][ /\ \A i \in 1..Len(pendingWrites') :
           pendingWrites'[i].id >= clearedAt'[pendingWrites'[i].roomId]
      /\ lastOp'.op = "clearRoomMessages" =>
           /\ lastOp'.roomId \notin DOMAIN recentMessages'
           /\ QueuedOf(pendingWrites', lastOp'.roomId) = <<>>
           /\ \A r \in Rooms \ {lastOp'.roomId} :
                /\ QueuedOf(pendingWrites', r) = QueuedOf(pendingWrites, r)
                /\ r \in DOMAIN recentMessages' <=> r \in DOMAIN recentMessages
                /\ r \in DOMAIN recentMessages => recentMessages'[r] = recentMessages[r]
    ]_vars

====
